---------------------------- MODULE Spec2Model ----------------------------
(***************************************************************************)
(* A model of agentic-log-attacker: the identifier sanitizer and the log   *)
(* query resolver (src/src/tools/gcp_logging_tool.py), the intent router   *)
(* (src/src/agents/supervisor.py) and the workflow graph (src/src/main.py).*)
(*                                                                         *)
(* Each component has its own specification over the shared variables:     *)
(*   SpecSanitize    sanitize_identifier applied to bounded identifiers    *)
(*   Spec            one call of get_gcp_logs against a log store          *)
(*   SpecSupervisor  supervisor_agent applied to completion texts          *)
(*   SpecWorkflow    the turns of one thread of the compiled workflow      *)
(*                   graph (SpecWorkflowFair: the engine runs on)          *)
(*   SpecFiling      github_issue_manager_agent filing a list of issues    *)
(***************************************************************************)
EXTENDS Integers, Sequences, FiniteSets, TLC

(***************************************************************************)
(* Bounds of the model.                                                    *)
(***************************************************************************)
\* Runs of equal characters an identifier is made of, at most.
MaxRuns == 2
\* Entries the log store holds for one filter, at most.
MaxEntries == 2
\* The largest limit a caller passes.
MaxLimit == 2
\* Clock ticks that pass during one call of get_gcp_logs, at most.
MaxTicks == 1
\* Turns of one thread, at most.
MaxTurns == 2
\* Issues handed to github_issue_manager_agent in one call, at most.
MaxIssues == 2
\* Items the tracker lists, at most.
MaxExisting == 2
\* Invocations of the graph that run at the same time, at most.
MaxInvocations == 2
\* Arrivals of requests at the rate limiter, at most.
MaxChecks == 3
\* Requests /a2a/execute receives, at most.
MaxA2ARequests == 2

(***************************************************************************)
(* Program constants.                                                      *)
(***************************************************************************)
\* len(identifier) > 255
MaxIdentifierLength == 255
\* timedelta(days=2), in hours
MaxRangeHours == 48
\* timedelta(hours=24)
DefaultLookbackHours == 24
\* timedelta(hours=48)
RetryLookbackHours == 48
\* issue.description[:256]
TitleLength == 256
\* title[:100]
ReasonTitleLength == 100

VARIABLES
    \* sanitize_identifier
    san_pc, san_in, san_out,
    \* get_gcp_logs
    g_pc, g_args, g_env, g_now, g_filters, g_auto_retry_48h, g_pass, g_i,
    g_calls, g_ret, g_exc,
    \* supervisor_agent
    sup_pc, sup_text, sup_out, sup_completions,
    \* the workflow graph
    wf_pc, wf_input, wf_state, wf_trace, wf_exc,
    \* the thread: its checkpoint, the checkpoint before the turn, the turns
    \* invoked, the collaborator calls and the router's decision of the turn
    wf_checkpoint, wf_pre, wf_turn, wf_effects, wf_router,
    \* the get_gcp_logs calls the handlers of the turn made
    wf_fetches,
    \* github_issue_manager_agent
    gh_pc, gh_issues, gh_existing, gh_i, gh_skipped_reasons, gh_log,
    \* whether get_github_issues could list the tracker's items
    gh_listing,
    \* the service extraction of supervisor_node
    ex_pc, ex_in, ex_out,
    \* RateLimiter: requests, time.time(), and the calls made: the timestamps
    \* accepted per caller, the last call and the number of calls
    rl_requests, rl_now, rl_accepted, rl_last, rl_calls,
    \* /a2a/execute: the request in hand, the allow-list, the caller
    \* verify_token returned, the steps the request passed, the response,
    \* the thread id generated, the threads the checkpointer holds and the
    \* number of requests received
    a2a_pc, a2a_request, a2a_allowed, a2a_caller, a2a_log, a2a_response,
    a2a_thread_id, a2a_store, a2a_count,
    \* invocations of the compiled graph that run at the same time on the
    \* threads of one checkpointer
    th_store, th_inv

sanVars == <<san_pc, san_in, san_out>>
fetchVars == <<g_pc, g_args, g_env, g_now, g_filters, g_auto_retry_48h,
               g_pass, g_i, g_calls, g_ret, g_exc>>
supVars == <<sup_pc, sup_text, sup_out, sup_completions>>
wfVars == <<wf_pc, wf_input, wf_state, wf_trace, wf_exc,
            wf_checkpoint, wf_pre, wf_turn, wf_effects, wf_router,
            wf_fetches>>
ghVars ==
    <<gh_pc, gh_issues, gh_existing, gh_i, gh_skipped_reasons, gh_log,
      gh_listing>>
exVars == <<ex_pc, ex_in, ex_out>>
rlVars == <<rl_requests, rl_now, rl_accepted, rl_last, rl_calls>>
a2aVars == <<a2a_pc, a2a_request, a2a_allowed, a2a_caller, a2a_log,
             a2a_response, a2a_thread_id, a2a_store, a2a_count>>
thVars == <<th_store, th_inv>>
\* The components named above this line, and those named below it.
coreVars == <<sanVars, fetchVars, supVars, wfVars, ghVars>>
edgeVars == <<exVars, rlVars, a2aVars, thVars>>
vars == <<coreVars, edgeVars>>

(***************************************************************************)
(* Strings.  An identifier is a string, kept run-length encoded so that    *)
(* strings of 255 and 256 characters are within reach: a sequence of runs  *)
(* [ch, n], n >= 1, neighbouring runs of different characters.  A          *)
(* character is named by a string; LF is the newline character.            *)
(***************************************************************************)
AllowedChars == {"a", "Z", "9", ".", "_", "-"}
OtherChars == {"QUOTE", "SPACE", "LF", "/"}
Alphabet == AllowedChars \cup OtherChars
RunLens == {1, 2, MaxIdentifierLength - 1, MaxIdentifierLength,
            MaxIdentifierLength + 1}
Runs == [ch : Alphabet, n : RunLens]
Run(c, n) == [ch |-> c, n |-> n]

IsCanonical(s) == \A i \in 1..(Len(s) - 1) : s[i].ch # s[i + 1].ch

Identifiers ==
    {s \in UNION {[1..k -> Runs] : k \in 0..MaxRuns} : IsCanonical(s)}

RECURSIVE StrLen(_)
StrLen(s) == IF s = <<>> THEN 0 ELSE Head(s).n + StrLen(Tail(s))

CharsOf(s) == {s[i].ch : i \in 1..Len(s)}

\* re.match(r'^[a-zA-Z0-9._-]+$', identifier): one or more allowed characters
\* up to the end of the string; without re.MULTILINE, $ matches at the end of
\* the string and also just before a newline that is the last character.
ReMatchIdentifier(s) ==
    LET body == IF Len(s) > 0 /\ s[Len(s)].ch = "LF" /\ s[Len(s)].n = 1
                THEN SubSeq(s, 1, Len(s) - 1) ELSE s
    IN  Len(body) > 0 /\ CharsOf(body) \subseteq AllowedChars

(***************************************************************************)
(* sanitize_identifier: the value returned, or the ValueError raised.      *)
(***************************************************************************)
NoError == [type |-> "None", msg |-> ""]
ValueError(m) == [type |-> "ValueError", msg |-> m]

sanitize_identifier(identifier) ==
    IF identifier = <<>>
    THEN [raised |-> TRUE, error |-> ValueError("cannot be empty"),
          value |-> <<>>]
    ELSE IF ~ReMatchIdentifier(identifier)
    THEN [raised |-> TRUE, error |-> ValueError("Invalid"), value |-> <<>>]
    ELSE IF StrLen(identifier) > MaxIdentifierLength
    THEN [raised |-> TRUE, error |-> ValueError("exceeds maximum length"),
          value |-> <<>>]
    ELSE [raised |-> FALSE, error |-> NoError, value |-> identifier]

(***************************************************************************)
(* ServiceType and SERVICE_CONFIG.  A filter template is                   *)
(* lhs = "pre{placeholder}post"; formatting puts the identifier in the     *)
(* placeholder's place.                                                    *)
(***************************************************************************)
ServiceType ==
    {"cloud_run", "cloud_build", "cloud_functions", "gce", "gke", "app_engine"}

Template(lhs, pre, ph, post) ==
    [lhs |-> lhs, pre |-> pre, placeholder |-> ph, post |-> post]
Label(lhs) == Template(lhs, "", "service_name", "")

SERVICE_CONFIG(t) ==
    CASE t = "cloud_run" ->
           [resource_type |-> "cloud_run_revision",
            filter_variations |->
              <<Label("resource.labels.service_name"),
                Label("resource.labels.configuration_name")>>]
      [] t = "cloud_build" ->
           [resource_type |-> "build",
            filter_variations |->
              <<Label("resource.labels.build_id"),
                Label("resource.labels.build_trigger_id"),
                Template("logName", "projects/", "project_id",
                         "/logs/cloudbuild")>>]
      [] t = "cloud_functions" ->
           [resource_type |-> "cloud_function",
            filter_variations |-> <<Label("resource.labels.function_name")>>]
      [] t = "gce" ->
           [resource_type |-> "gce_instance",
            filter_variations |->
              <<Label("resource.labels.instance_id"),
                Label("labels.instance_name")>>]
      [] t = "gke" ->
           [resource_type |-> "k8s_container",
            filter_variations |->
              <<Label("resource.labels.cluster_name"),
                Label("resource.labels.namespace_name"),
                Label("resource.labels.pod_name")>>]
      [] t = "app_engine" ->
           [resource_type |-> "gae_app",
            filter_variations |->
              <<Label("resource.labels.module_id"),
                Label("resource.labels.version_id")>>]

\* filter_template.format(service_name=..., project_id=...)
FormatTemplate(template, service_name, project_id) ==
    [lhs |-> template.lhs, pre |-> template.pre,
     value |-> IF template.placeholder = "service_name"
               THEN service_name ELSE project_id,
     post |-> template.post]

\* Mutant: the filters are built from the last template of the table to the
\* first.
build_filter_variations_reversed(config, service_name, project_id, time_filter) ==
    [i \in 1..Len(config.filter_variations) |->
        [resource_type |-> config.resource_type,
         clause |-> FormatTemplate(
                        config.filter_variations[
                            Len(config.filter_variations) + 1 - i],
                        service_name, project_id),
         severity |-> "DEFAULT",
         time_filter |-> time_filter]]

\* build_filter_variations: one full filter per template, in table order.
build_filter_variations(config, service_name, project_id, time_filter) ==
    [i \in 1..Len(config.filter_variations) |->
        [resource_type |-> config.resource_type,
         clause |-> FormatTemplate(config.filter_variations[i],
                                   service_name, project_id),
         severity |-> "DEFAULT",
         time_filter |-> time_filter]]

(***************************************************************************)
(* Time.  A start_time/end_time argument is None, a string that is not ISO *)
(* 8601, or an ISO timestamp: an hour count, written with a Z suffix       *)
(* (timezone-aware once parsed) or without one (naive).                    *)
(***************************************************************************)
TimeNone == [kind |-> "none", t |-> 0, tz |-> "-"]
TimeBad == [kind |-> "bad", t |-> 0, tz |-> "-"]
Iso(t, tz) == [kind |-> "iso", t |-> t, tz |-> tz]
ExplicitHours == {0, 1, MaxRangeHours, MaxRangeHours + 1}
TimeArgs ==
    {TimeNone, TimeBad} \cup {Iso(t, tz) : t \in ExplicitHours, tz \in {"Z", "naive"}}

\* "if start_time and end_time"
Truthy(time_arg) == time_arg.kind # "none"

\* Mutant: a range of exactly 48 hours is turned down too.
RangeExceededInclusive(start, end) == end.t - start.t >= MaxRangeHours

\* end - start > timedelta(days=2)
RangeExceeded(start, end) == end.t - start.t > MaxRangeHours

\* Mutant: the two bounds of the time clause change places.
TimeFilterSwapped(start, end) == [start |-> end, end |-> start]

\* f' AND timestamp >= "{start}" AND timestamp <= "{end}"'
TimeFilter(start, end) == [start |-> start, end |-> end]

\* Lines 111-126: the time clause, whether the 48-hour retry is armed, and the
\* error returned or the exception that escapes.
\*   - datetime.fromisoformat raises ValueError on a string that is not ISO;
\*   - subtracting a naive from an aware datetime raises TypeError, which the
\*     "except ValueError" does not catch.
BuildTimeFilter(start_time, end_time, now) ==
    IF Truthy(start_time) /\ Truthy(end_time)
    THEN IF start_time.kind = "bad" \/ end_time.kind = "bad"
         THEN [outcome |-> "return", error |-> ValueError("Invalid isoformat string"),
               time_filter |-> TimeFilter(TimeNone, TimeNone), auto_retry_48h |-> FALSE]
         ELSE IF start_time.tz # end_time.tz
         THEN [outcome |-> "raise", error |-> [type |-> "TypeError", msg |-> "naive and aware"],
               time_filter |-> TimeFilter(TimeNone, TimeNone), auto_retry_48h |-> FALSE]
         ELSE IF RangeExceeded(start_time, end_time)
         THEN [outcome |-> "return",
               error |-> ValueError("Time range cannot exceed 48 hours."),
               time_filter |-> TimeFilter(TimeNone, TimeNone), auto_retry_48h |-> FALSE]
         ELSE [outcome |-> "ok", error |-> NoError,
               time_filter |-> TimeFilter(start_time, end_time),
               auto_retry_48h |-> FALSE]
    ELSE [outcome |-> "ok", error |-> NoError,
          time_filter |-> TimeFilter(Iso(now - DefaultLookbackHours, "Z"),
                                     Iso(now, "Z")),
          auto_retry_48h |-> TRUE]

NoResult == [raised |-> FALSE, error |-> NoError, value |-> <<>>]

NoArgs == [service_name |-> <<>>, service_type |-> "", limit |-> 0,
           start_time |-> TimeNone, end_time |-> TimeNone]
Returned(logs, error) == [logs |-> logs, page_token |-> "None", error |-> error]
NoReturn == Returned(<<>>, NoError)

FetchIdle ==
    /\ g_pc = "idle"
    /\ g_args = NoArgs
    /\ g_env = <<>>
    /\ g_now = 0
    /\ g_filters = <<>>
    /\ g_auto_retry_48h = FALSE
    /\ g_pass = 0
    /\ g_i = 0
    /\ g_calls = <<>>
    /\ g_ret = NoReturn
    /\ g_exc = NoError

(***************************************************************************)
(* supervisor_agent.  The completion collaborator answers with a text:     *)
(*   kind   "object"       a JSON object; word, repo_url and issue_content *)
(*                         are the values of its keys next_agent, repo_url *)
(*                         and issue_content ("None": the key is absent)   *)
(*          "json_string"  a JSON string literal holding word              *)
(*          "bare"         word itself, which is not JSON                  *)
(*          "empty"        nothing                                         *)
(*   fence  "none", "json" (```json\n ... \n```), "json_tight" (```json    *)
(*          ... ``` with no line breaks) or "backticks" (``` ... ```)      *)
(*   pad    white space around the text                                    *)
(* A Python str is the bare text of its characters; PyNone is None.        *)
(***************************************************************************)
AgentNames ==
    {"log_explorer", "github_issue_manager", "solutions_agent",
     "ask_for_repo_url"}
Words == AgentNames \cup {"unknown_agent"}
RepoUrls == {"https://github.com/example/repo"}
Fences == {"none", "json", "json_tight", "backticks"}

Text(pad, fence, kind, word, repo_url, issue_content) ==
    [pad |-> pad, fence |-> fence, kind |-> kind, word |-> word,
     repo_url |-> repo_url, issue_content |-> issue_content]
Str(word) == Text(FALSE, "none", "bare", word, "None", "None")
PyNone == Text(FALSE, "none", "pynone", "None", "None", "None")
\* A key's value as .get returns it.
Value(v) == IF v = "None" THEN PyNone ELSE Str(v)

CompletionTexts ==
    {Text(pad, f, "object", w, r, c) :
        pad \in BOOLEAN, f \in Fences, w \in Words \cup {"None"},
        r \in RepoUrls \cup {"None"}, c \in {"None", "recommendation"}}
    \cup {Text(pad, f, k, w, "None", "None") :
        pad \in BOOLEAN, f \in Fences, k \in {"json_string", "bare"},
        w \in Words}
    \cup {Text(pad, f, "empty", "None", "None", "None") :
        pad \in BOOLEAN, f \in Fences}

\* response.text.strip()
Strip(text) == [text EXCEPT !.pad = FALSE]

\* Lines 68-69: a text that starts with ```json and ends with ``` loses its
\* first len('```json\n') and last len('\n```') characters.  Without the line
\* breaks those slices take the first and the last character of the payload
\* with them, and what is left of an object or a string literal is not JSON.
StripFence(text) ==
    IF text.fence = "json" THEN [text EXCEPT !.fence = "none"]
    ELSE IF text.fence = "json_tight"
    THEN [text EXCEPT !.fence = "none",
                      !.kind = IF text.kind = "empty" THEN "empty" ELSE "cut"]
    ELSE text

\* json.loads: "object", "string" or, for a JSONDecodeError, "error".
JsonLoads(text) ==
    IF text.fence = "none" /\ text.kind = "object" THEN "object"
    ELSE IF text.fence = "none" /\ text.kind = "json_string" THEN "string"
    ELSE "error"

NoDecision ==
    [raised |-> "None", next_agent |-> PyNone, repo_url |-> PyNone,
     issue_content |-> PyNone]

\* Lines 65-81.  raised names the exception that escapes, "None" if none.
\*   - the object's keys are read with .get;
\*   - a JSON value that is no object has no .get: AttributeError;
\*   - on JSONDecodeError next_agent and repo_url are set but issue_content is
\*     not, and the return statement that reads it raises UnboundLocalError.
supervisor_agent(text) ==
    LET response_text == StripFence(Strip(text))
        loaded == JsonLoads(response_text)
    IN  IF loaded = "object"
        THEN [raised |-> "None",
              next_agent |-> Value(response_text.word),
              repo_url |-> Value(response_text.repo_url),
              issue_content |-> Value(response_text.issue_content)]
        ELSE IF loaded = "string"
        THEN [NoDecision EXCEPT !.raised = "AttributeError"]
        ELSE [raised |-> "UnboundLocalError",
              next_agent |-> response_text,
              repo_url |-> PyNone,
              issue_content |-> PyNone]

SupervisorIdle ==
    /\ sup_pc = "idle"
    /\ sup_text = PyNone
    /\ sup_out = NoDecision
    /\ sup_completions = 0

(***************************************************************************)
(* The workflow graph (main.py).  AgentState is a record of channels; a    *)
(* node returns a partial update, which the engine merges: messages,       *)
(* orchestrator_history and log_reviewer_history are added to (operator.   *)
(* add), every other channel is overwritten.  "None" is Python's None, and *)
(* a channel nothing has written yet reads as None.  The graph is compiled *)
(* with a checkpointer: the engine saves the channels of the thread when   *)
(* it has applied the input of a turn and after every node, and the next   *)
(* turn of the thread starts from what was saved last.                     *)
(***************************************************************************)
\* A Python value of supervisor_agent as the state holds it.
PyStr(v) == IF v = PyNone THEN "None" ELSE v.word

\* Lines 49-61: the channels of a thread no turn has written to.
NoChannels ==
    [messages |-> <<>>,
     service_name |-> "None",
     service_type |-> "None",
     git_repo_url |-> "None",
     issues |-> <<>>,
     orchestrator_history |-> <<>>,
     log_reviewer_history |-> <<>>,
     github_issue_manager_history |-> <<>>,
     next_agent |-> "None"]

\* Lines 461-466: the input a2a_execute invokes the workflow with.
InitialState(user_query, service_name, service_type, repo_url) ==
    [keys |-> {"messages", "service_name", "service_type", "git_repo_url"},
     messages |-> <<user_query>>,
     service_name |-> service_name,
     service_type |-> service_type,
     git_repo_url |-> repo_url]

\* tests/test_conversation.py: a turn invoked with {"messages": [message]}.
MessageOnly(user_query) ==
    [keys |-> {"messages"},
     messages |-> <<user_query>>,
     service_name |-> "None",
     service_type |-> "None",
     git_repo_url |-> "None"]

\* The input of a turn replaces the messages of the thread.
ApplyInputReplacesMessages(channels, input) ==
    [channels EXCEPT
        !.messages = input.messages,
        !.service_name =
            IF "service_name" \in input.keys THEN input.service_name ELSE @,
        !.service_type =
            IF "service_type" \in input.keys THEN input.service_type ELSE @,
        !.git_repo_url =
            IF "git_repo_url" \in input.keys THEN input.git_repo_url ELSE @]

\* Lines 49-61 and 470-473: the engine writes the input of a turn to the
\* channels of the thread, messages through its reducer operator.add.
ApplyInput(channels, input) ==
    [channels EXCEPT
        !.messages = @ \o input.messages,
        !.service_name =
            IF "service_name" \in input.keys THEN input.service_name ELSE @,
        !.service_type =
            IF "service_type" \in input.keys THEN input.service_type ELSE @,
        !.git_repo_url =
            IF "git_repo_url" \in input.keys THEN input.git_repo_url ELSE @]

\* Lines 83-108: the service named in the utterance.  An utterance holds the
\* phrase of one service category followed by a name, or none.
UtterancePhrases == ServiceType \cup {"none"}
ExtractServiceName(utterance) ==
    IF utterance.phrase = "none" THEN "None" ELSE utterance.name

\* The text of an utterance.
UserQuery(utterance) ==
    IF utterance.phrase = "none" THEN "any improvements over time?"
    ELSE "for " \o utterance.phrase \o " " \o utterance.name
             \o ", show errors from the " \o utterance.window

\* supervisor_node reads the service from the utterance at every turn.
supervisor_node_always_extracts(state, utterance, completion) ==
    LET service_name == ExtractServiceName(utterance)
        service_type == IF utterance.phrase = "none"
                        THEN "cloud_run" ELSE utterance.phrase
        response == supervisor_agent(completion)
    IN  IF service_name = "None"
        THEN [raised |-> "None", called_agent |-> FALSE,
              state |-> [state EXCEPT
                  !.messages = @ \o <<"No service name specified.">>,
                  !.next_agent = "END",
                  !.service_name = "None",
                  !.service_type = "cloud_run"]]
        ELSE IF response.raised # "None"
        THEN [raised |-> response.raised, called_agent |-> TRUE, state |-> state]
        ELSE [raised |-> "None", called_agent |-> TRUE,
              state |-> [state EXCEPT
                  !.orchestrator_history =
                      @ \o <<"Routing to " \o PyStr(response.next_agent)>>,
                  !.service_name = service_name,
                  !.service_type = service_type,
                  !.git_repo_url = PyStr(response.repo_url),
                  !.next_agent = PyStr(response.next_agent)]]

\* Lines 63-142: the state after the update supervisor_node returns, or the
\* exception of supervisor_agent that escapes it.
supervisor_node(state, utterance, completion) ==
    LET given == state.service_name # "None"
        from_state == IF state.service_type = "None"
                      THEN "cloud_run" ELSE state.service_type
        service_name == IF given THEN state.service_name
                        ELSE ExtractServiceName(utterance)
        service_type == IF given \/ utterance.phrase = "none"
                        THEN from_state ELSE utterance.phrase
        response == supervisor_agent(completion)
    IN  IF service_name = "None"
        THEN [raised |-> "None", called_agent |-> FALSE,
              state |-> [state EXCEPT
                  !.messages = @ \o <<"No service name specified.">>,
                  !.next_agent = "END",
                  !.service_name = "None",
                  !.service_type = "cloud_run"]]
        ELSE IF response.raised # "None"
        THEN [raised |-> response.raised, called_agent |-> TRUE, state |-> state]
        ELSE [raised |-> "None", called_agent |-> TRUE,
              state |-> [state EXCEPT
                  !.orchestrator_history =
                      @ \o <<"Routing to " \o PyStr(response.next_agent)>>,
                  !.service_name = service_name,
                  !.service_type = service_type,
                  !.git_repo_url = PyStr(response.repo_url),
                  !.next_agent = PyStr(response.next_agent)]]

\* Lines 144-162: result is the text log_explorer_agent returns.
log_explorer_node(state, result) ==
    [state EXCEPT
        !.log_reviewer_history = @ \o <<result>>,
        !.orchestrator_history = @ \o (state.orchestrator_history \o <<result>>)]

\* Lines 164-181
issue_creation_node(state, issues) == [state EXCEPT !.issues = issues]

\* Lines 183-218: history is what github_issue_manager_agent reports.
github_issue_manager_node(state, history) ==
    [state EXCEPT !.github_issue_manager_history =
        IF state.issues = <<>> THEN <<"No issues to create">>
        ELSE IF state.git_repo_url = "None"
        THEN <<"Error: No repository URL provided">>
        ELSE <<history>>]

\* Lines 241-244
ask_for_repo_url_node(state) ==
    [state EXCEPT !.orchestrator_history =
        @ \o <<"Please provide the full GitHub repository URL">>]

\* The router that sends every turn on to issue_creation.
route_after_log_explorer_always(state) == "issue_creation"

\* Lines 258-267
route_after_log_explorer(state) ==
    IF state.git_repo_url # "None" THEN "issue_creation" ELSE "end"

\* The graph with an edge from github_issue_manager back to the entry node.
NextNodeWithCycle(node, state) ==
    CASE node = "supervisor" -> "log_explorer"
      [] node = "log_explorer" ->
            IF route_after_log_explorer(state) = "issue_creation"
            THEN "issue_creation" ELSE "END"
      [] node = "issue_creation" -> "github_issue_manager"
      [] node = "github_issue_manager" -> "supervisor"
      [] node = "code_fixer" -> "END"
      [] node = "solutions" -> "END"
      [] node = "ask_for_repo_url" -> "END"

\* Lines 269-289: the node that follows a node, "END" for the end node.
NextNode(node, state) ==
    CASE node = "supervisor" -> "log_explorer"
      [] node = "log_explorer" ->
            IF route_after_log_explorer(state) = "issue_creation"
            THEN "issue_creation" ELSE "END"
      [] node = "issue_creation" -> "github_issue_manager"
      [] node = "github_issue_manager" -> "END"
      [] node = "code_fixer" -> "END"
      [] node = "solutions" -> "END"
      [] node = "ask_for_repo_url" -> "END"

\* A handler's call of get_gcp_logs and what it returned: an error, no
\* entries ("empty") or entries.
FetchCall(service_name, service_type, limit, start_time, end_time) ==
    [service_name |-> service_name, service_type |-> service_type,
     limit |-> limit, start_time |-> start_time, end_time |-> end_time]
Fetch(call, result) == [call |-> call, result |-> result]
NoFetch == Fetch(FetchCall("None", "None", 0, TimeNone, TimeNone), "none")

\* What a handler's agent does: its call of get_gcp_logs, the collaborators
\* it calls, in order, and the value it returns or, raised, that a
\* collaborator's exception escapes it.
Outcome(fetch, raised, value, effects) ==
    [fetch |-> fetch, raised |-> raised, value |-> value, effects |-> effects]

\* log_explorer.py 10-67.  get_gcp_logs refuses a service name of None
\* before it queries (gcp_logging_tool.py 89-94) and catches what the log
\* store raises (186-188); nothing catches what generate_content raises
\* (log_explorer.py 64).
LogExplorerResults == {"fetch error", "no logs found", "answer"}
log_explorer_agent(service_name, service_type, start_time, end_time) ==
    LET call == FetchCall(service_name, service_type, 1000,
                          start_time, end_time)
    IN  IF service_name = "None"
        THEN {Outcome(Fetch(call, "error"), FALSE, "fetch error", <<>>)}
        ELSE {Outcome(Fetch(call, "error"), FALSE, "fetch error",
                      <<"log_query">>),
              Outcome(Fetch(call, "empty"), FALSE, "no logs found",
                      <<"log_query">>),
              Outcome(Fetch(call, "entries"), FALSE, "answer",
                      <<"log_query", "completion">>),
              Outcome(Fetch(call, "entries"), TRUE, "",
                      <<"log_query", "completion">>)}

\* issue_creation_agent.py 15-116: get_gcp_logs is called with the service
\* name and a limit (line 19; the category is its default, cloud_run); an
\* error and no logs both return no issues (lines 21-26); else the tracker
\* is listed and the completion asked for issues (line 84, outside the try).
issue_creation_agent(service_name, repo_url) ==
    LET call == FetchCall(service_name, "cloud_run", 1000, TimeNone, TimeNone)
        effects ==
            IF repo_url = "None" THEN <<"log_query", "completion">>
            ELSE <<"log_query", "issue_tracker", "completion">>
    IN  IF service_name = "None"
        THEN {Outcome(Fetch(call, "error"), FALSE, <<>>, <<>>)}
        ELSE {Outcome(Fetch(call, "error"), FALSE, <<>>, <<"log_query">>),
              Outcome(Fetch(call, "empty"), FALSE, <<>>, <<"log_query">>),
              Outcome(Fetch(call, "entries"), FALSE, <<>>, effects),
              Outcome(Fetch(call, "entries"), FALSE, <<"issue">>, effects),
              Outcome(Fetch(call, "entries"), TRUE, <<>>, effects)}

\* main.py 205-218 and github_issue_manager.py 44-148: the agent is called
\* when there are issues and a repository; it lists the tracker's items,
\* files the issue and reports the count (SpecFiling has the detail).
github_issue_manager_agent(issues, repo_url) ==
    IF issues = <<>> \/ repo_url = "None"
    THEN {Outcome(NoFetch, FALSE, "", <<>>)}
    ELSE {Outcome(NoFetch, FALSE, "Created 1 GitHub issue(s), skipped 0.",
                  <<"issue_tracker", "issue_tracker">>)}

NoInput ==
    [style |-> "none",
     utterance |-> [phrase |-> "none", name |-> "None", window |-> "none"],
     input |-> MessageOnly("")]

WorkflowIdle ==
    /\ wf_pc = "idle"
    /\ wf_input = NoInput
    /\ wf_state = NoChannels
    /\ wf_trace = <<>>
    /\ wf_exc = "None"
    /\ wf_checkpoint = NoChannels
    /\ wf_pre = NoChannels
    /\ wf_turn = 0
    /\ wf_effects = <<>>
    /\ wf_router = NoDecision
    /\ wf_fetches = <<>>

FilingIdle ==
    /\ gh_pc = "idle"
    /\ gh_issues = <<>>
    /\ gh_existing = <<>>
    /\ gh_i = 0
    /\ gh_skipped_reasons = <<>>
    /\ gh_log = <<>>
    /\ gh_listing = "none"

(***************************************************************************)
(* The service extraction of supervisor_node (main.py 73-108).  A user     *)
(* query is a sequence of mentions: the phrase of a service category,      *)
(* white space, and the text that follows up to the next mention; logs_for *)
(* tells that the words "logs for" and white space stand between the two.  *)
(* The text is a run-length encoded string; "a" stands for a letter, "@"   *)
(* for a character outside [a-zA-Z0-9._-] that ends no name.               *)
(***************************************************************************)
\* Lines 83-90: the patterns in the order they are tried.  Only the pattern
\* of cloud build has the optional group (?:logs for\s+)?.
Pattern(phrase, type, logs_for) ==
    [phrase |-> phrase, type |-> type, logs_for |-> logs_for]

\* Mutant: the pattern of gke cluster is tried first.
service_patterns_gke_first ==
    <<Pattern("gke cluster", "gke", FALSE),
      Pattern("cloud run service", "cloud_run", FALSE),
      Pattern("cloud build", "cloud_build", TRUE),
      Pattern("cloud function", "cloud_functions", FALSE),
      Pattern("gce instance", "gce", FALSE),
      Pattern("app engine", "app_engine", FALSE)>>

service_patterns ==
    <<Pattern("cloud run service", "cloud_run", FALSE),
      Pattern("cloud build", "cloud_build", TRUE),
      Pattern("cloud function", "cloud_functions", FALSE),
      Pattern("gce instance", "gce", FALSE),
      Pattern("gke cluster", "gke", FALSE),
      Pattern("app engine", "app_engine", FALSE)>>

WhitespaceChars == {"SPACE", "LF"}
\* (?:['\"]|\s|,|$): what ends a name, besides the end of the query.
NameEnds == {"QUOTE", ",", "SPACE", "LF"}

\* \s+ takes the white space the text starts with.
RECURSIVE SkipWhitespace(_)
SkipWhitespace(s) ==
    IF s # <<>> /\ Head(s).ch \in WhitespaceChars
    THEN SkipWhitespace(Tail(s)) ELSE s

\* ['\"]? takes one quote.
SkipQuote(s) ==
    IF s # <<>> /\ Head(s).ch = "QUOTE"
    THEN IF Head(s).n = 1 THEN Tail(s)
         ELSE <<Run("QUOTE", Head(s).n - 1)>> \o Tail(s)
    ELSE s

\* ([a-zA-Z0-9._-]+) is greedy: the number of runs it takes.
RECURSIVE AllowedPrefix(_)
AllowedPrefix(s) ==
    IF s # <<>> /\ Head(s).ch \in AllowedChars
    THEN 1 + AllowedPrefix(Tail(s)) ELSE 0

NoMatch == [matched |-> FALSE, name |-> <<>>]
Match(name) == [matched |-> TRUE, name |-> name]

\* \s+['\"]?([a-zA-Z0-9._-]+)(?:['\"]|\s|,|$) on the text after a phrase:
\* the name must be followed by a quote, white space, a comma or the end.  A
\* shorter name is followed by a character of the name, so there is no
\* other way to match.
MatchName(text) ==
    LET t == SkipQuote(SkipWhitespace(text))
        k == AllowedPrefix(t)
    IN  IF k = 0 THEN NoMatch
        ELSE IF k = Len(t) \/ t[k + 1].ch \in NameEnds
        THEN Match(SubSeq(t, 1, k))
        ELSE NoMatch

\* The word "logs": four letters.
LogsWord == <<Run("a", 4)>>

\* A pattern at a mention.  After "logs for", the pattern of cloud build
\* matches the name that follows or, failing that, backtracks and takes
\* "logs" as the name; every other pattern takes "logs".
MatchMention(pattern, mention) ==
    IF mention.phrase # pattern.phrase THEN NoMatch
    ELSE IF ~mention.logs_for THEN MatchName(mention.text)
    ELSE IF pattern.logs_for /\ MatchName(mention.text).matched
    THEN MatchName(mention.text)
    ELSE Match(LogsWord)

\* Line 93: re.search finds the leftmost match of the pattern.
RECURSIVE re_search(_, _)
re_search(pattern, user_query) ==
    IF user_query = <<>> THEN NoMatch
    ELSE IF MatchMention(pattern, Head(user_query)).matched
    THEN MatchMention(pattern, Head(user_query))
    ELSE re_search(pattern, Tail(user_query))

Identity(name, type) == [name |-> name, type |-> type]

\* Lines 92-108: the loop over the patterns.  A match assigns service_name
\* and service_type before the name is validated (lines 95-96); a name that
\* fails the validation stays assigned while the next pattern is tried.
RECURSIVE ExtractLoop(_, _, _, _)
ExtractLoop(patterns, user_query, service_name, service_type) ==
    IF patterns = <<>> THEN Identity(service_name, service_type)
    ELSE LET match == re_search(Head(patterns), user_query)
         IN  IF ~match.matched
             THEN ExtractLoop(Tail(patterns), user_query,
                              service_name, service_type)
             ELSE IF ~ReMatchIdentifier(match.name)
             THEN ExtractLoop(Tail(patterns), user_query,
                              match.name, Head(patterns).type)
             ELSE Identity(match.name, Head(patterns).type)

\* Lines 73-108: the service identity supervisor_node goes on with; <<>> is
\* a name that is None or empty ("if not service_name").
ExtractIdentity(state_name, state_type, user_query) ==
    IF state_name # <<>> THEN Identity(state_name, state_type)
    ELSE ExtractLoop(service_patterns, user_query, state_name, state_type)

NoQuery == [state_name |-> <<>>, state_type |-> "cloud_run",
            user_query |-> <<>>]
ExtractIdle ==
    /\ ex_pc = "idle"
    /\ ex_in = NoQuery
    /\ ex_out = Identity(<<>>, "None")

(***************************************************************************)
(* RateLimiter (middleware/rate_limiter.py).  requests maps a caller to    *)
(* the timestamps of its accepted requests that the last check kept; a     *)
(* timestamp is a number of seconds.                                       *)
(***************************************************************************)
\* Line 70: rate_limiter = RateLimiter(max_requests=100, window_seconds=60)
max_requests == 100
window_seconds == 60

Callers == {"svc-a@example.iam", "svc-b@example.iam"}

\* self.requests[caller] is a list of timestamps, oldest first; the model
\* keeps it as runs of equal timestamps: Stamps(t, n) is n times t.
Stamps(t, n) == [t |-> t, n |-> n]

\* len(timestamps)
RECURSIVE Count(_)
Count(timestamps) ==
    IF timestamps = <<>> THEN 0
    ELSE Head(timestamps).n + Count(Tail(timestamps))

\* now appended n times to timestamps; timestamps.append(now) is one time.
AppendStamps(timestamps, now, n) ==
    IF n = 0 THEN timestamps
    ELSE IF timestamps # <<>> /\ timestamps[Len(timestamps)].t = now
    THEN [timestamps EXCEPT ![Len(timestamps)].n = @ + n]
    ELSE Append(timestamps, Stamps(now, n))
AppendStamp(timestamps, now) == AppendStamps(timestamps, now, 1)

\* Mutant: a timestamp window_seconds old is still inside the window.
InWindowInclusive(timestamps, now) ==
    SelectSeq(timestamps, LAMBDA req : now - req.t <= window_seconds)

\* Lines 47-50: the timestamps inside the window.
InWindow(timestamps, now) ==
    SelectSeq(timestamps, LAMBDA req : now - req.t < window_seconds)

\* Mutant: a call that raises records now as well.
check_rate_limit_records_rejected(requests, caller, now) ==
    LET kept == InWindow(requests[caller], now)
    IN  [raised |-> Count(kept) >= max_requests,
         requests |-> [requests EXCEPT ![caller] = AppendStamp(kept, now)]]

\* Mutant: the limit is compared with > .
check_rate_limit_off_by_one(requests, caller, now) ==
    LET kept == InWindow(requests[caller], now)
    IN  IF Count(kept) > max_requests
        THEN [raised |-> TRUE, requests |-> [requests EXCEPT ![caller] = kept]]
        ELSE [raised |-> FALSE,
              requests |->
                  [requests EXCEPT ![caller] = AppendStamp(kept, now)]]

\* Lines 34-66: one call.  The old timestamps are dropped; the call raises
\* HTTPException 429 when max_requests are left, else records now.
check_rate_limit(requests, caller, now) ==
    LET kept == InWindow(requests[caller], now)
    IN  IF Count(kept) >= max_requests
        THEN [raised |-> TRUE, requests |-> [requests EXCEPT ![caller] = kept]]
        ELSE [raised |-> FALSE,
              requests |->
                  [requests EXCEPT ![caller] = AppendStamp(kept, now)]]

\* The limiter and the calls made of it: the timestamps accepted per caller
\* and the last call.
Limiter(requests, accepted, last) ==
    [requests |-> requests, accepted |-> accepted, last |-> last]
Checked(caller, now, status) ==
    [caller |-> caller, now |-> now, status |-> status]
NoCheck == Checked("None", 0, 0)

\* One call of check_rate_limit by caller at now.
CheckOnce(limiter, caller, now) ==
    LET r == check_rate_limit(limiter.requests, caller, now)
    IN  Limiter(r.requests,
                IF r.raised THEN limiter.accepted
                ELSE [limiter.accepted EXCEPT ![caller] = AppendStamp(@, now)],
                Checked(caller, now, IF r.raised THEN 429 ELSE 200))

\* k calls by caller, one after the other, all at now.  Call j finds the
\* timestamps the calls before it recorded; a call that raises records
\* nothing, so the calls after it find what it found and raise as well:
\* admitted is the set of the calls that return.
CheckTimes(limiter, caller, now, k) ==
    LET kept == InWindow(limiter.requests[caller], now)
        Before(j) ==
            [limiter.requests EXCEPT
                ![caller] = AppendStamps(kept, now, j - 1)]
        admitted ==
            {j \in 1..k : ~check_rate_limit(Before(j), caller, now).raised}
        m == Cardinality(admitted)
    IN  Limiter(check_rate_limit(Before(IF m = 0 THEN 1 ELSE m),
                                 caller, now).requests,
                [limiter.accepted EXCEPT
                    ![caller] = AppendStamps(@, now, m)],
                Checked(caller, now, IF m = k THEN 200 ELSE 429))

RateLimitIdle ==
    /\ rl_requests = [c \in Callers |-> <<>>]
    /\ rl_now = 0
    /\ rl_accepted = [c \in Callers |-> <<>>]
    /\ rl_last = NoCheck
    /\ rl_calls = 0

(***************************************************************************)
(* /a2a/execute (main.py 425-520) behind A2AAuthenticator.verify_token     *)
(* (middleware/a2a_auth.py).  A request carries an Authorization header    *)
(* ("None" when missing, "Basic" for one that does not start with          *)
(* "Bearer "), the token in it as verify_oauth2_token judges it (valid or  *)
(* not, and the email claim of a valid one), a skill id and the input.     *)
(***************************************************************************)
Token(valid, email) == [valid |-> valid, email |-> email]
Tokens ==
    {Token(FALSE, "None"), Token(TRUE, "None")}
        \cup {Token(TRUE, c) : c \in Callers}

Verified(status, caller, steps) ==
    [status |-> status, caller |-> caller, steps |-> steps]

\* Mutant: the caller is not looked up in the allow-list.
verify_token_any_caller(authorization, token, allowed_service_accounts) ==
    IF authorization = "None" THEN Verified(401, "None", <<>>)
    ELSE IF authorization # "Bearer" THEN Verified(401, "None", <<>>)
    ELSE IF ~token.valid THEN Verified(401, "None", <<>>)
    ELSE IF token.email = "None"
    THEN Verified(401, "None", <<"token_verified">>)
    ELSE Verified(200, token.email, <<"token_verified", "caller_allowed">>)

\* a2a_auth.py 32-93: the caller's email, or the status of the
\* HTTPException raised; steps are the checks passed, in order.
verify_token(authorization, token, allowed_service_accounts) ==
    IF authorization = "None" THEN Verified(401, "None", <<>>)
    ELSE IF authorization # "Bearer" THEN Verified(401, "None", <<>>)
    ELSE IF ~token.valid THEN Verified(401, "None", <<>>)
    ELSE IF token.email = "None"
    THEN Verified(401, "None", <<"token_verified">>)
    ELSE IF token.email \notin allowed_service_accounts
    THEN Verified(403, "None", <<"token_verified">>)
    ELSE Verified(200, token.email, <<"token_verified", "caller_allowed">>)

\* a2a_auth.py 21-24: ALLOWED_SERVICE_ACCOUNTS, read when the process starts.
AllowLists == {{}, {"svc-a@example.iam"}}

\* models/a2a_models.py and main.py 496-520: the response.  result holds the
\* keys of lines 499-505.
Result(service_name, service_type, analysis, issues, history) ==
    [service_name |-> service_name,
     service_type |-> service_type,
     analysis |-> analysis,
     issues_identified |-> issues,
     issues_created |-> 0,
     github_issue_urls |-> <<>>,
     orchestrator_history |-> history]
EmptyResult == Result("None", "None", "None", 0, <<>>)
A2AResponse(status, success, result, error) ==
    [status |-> status, success |-> success, result |-> result,
     error |-> error]
NoResponse == A2AResponse(0, FALSE, EmptyResult, "None")
HTTPException(status) == A2AResponse(status, FALSE, EmptyResult, "None")

\* main.py 450-453: the input of a request: user_query (has_query tells
\* whether the key is there), service_name, service_type, repo_url, and the
\* id of the thread the caller wants to go on with, 0 for none.
A2AInput(has_query, utterance, service, repo_url, thread_id) ==
    [has_query |-> has_query, utterance |-> utterance, service |-> service,
     repo_url |-> repo_url, thread_id |-> thread_id]
A2ARequest(authorization, token, skill_id, input) ==
    [authorization |-> authorization, token |-> token,
     skill_id |-> skill_id, input |-> input]
NoRequest ==
    A2ARequest("None", Token(FALSE, "None"), "None",
               A2AInput(FALSE, NoInput.utterance,
                        [name |-> "None", type |-> "None"], "None", 0))

\* The endpoint but for its allow-list.
A2AQuiet ==
    /\ a2a_pc = "idle"
    /\ a2a_request = NoRequest
    /\ a2a_caller = "None"
    /\ a2a_log = <<>>
    /\ a2a_response = NoResponse
    /\ a2a_thread_id = 0
    /\ a2a_store = <<>>
    /\ a2a_count = 0
A2AIdle == A2AQuiet /\ a2a_allowed = {}

(***************************************************************************)
(* Invocations of the compiled graph that run at the same time            *)
(* (full_workflow.invoke with a thread_id, main.py 295-298 and 470-473).  *)
(* The checkpointer keeps the channels of every thread under its          *)
(* thread_id.  An invocation reads the checkpoint of its thread when it   *)
(* starts and works on its own copy of the channels; it writes the copy   *)
(* to the checkpointer when the input is applied and after every node.    *)
(* Nothing in main.py keeps two invocations of one thread apart.          *)
(***************************************************************************)
ThreadIds == {"t1", "t2"}

\* checkpointer.get_tuple(config): what was written to the thread last, or
\* for a thread nothing was written to, no channels.
GetCheckpoint(store, thread_id) ==
    IF thread_id \in DOMAIN store THEN store[thread_id] ELSE NoChannels

\* Mutant: the checkpointer keeps one record for all threads.
PutCheckpointOneRecord(store, thread_id, channels) ==
    [t \in DOMAIN store \cup {thread_id} |-> channels]

\* checkpointer.put(config, checkpoint, ...)
PutCheckpoint(store, thread_id, channels) ==
    [t \in DOMAIN store \cup {thread_id} |->
        IF t = thread_id THEN channels ELSE store[t]]

\* An invocation: where it is, its thread, its utterance, its copy of the
\* channels, and alone: the channels it would hold had it started on a
\* thread nothing was written to.
Invocation(pc, thread_id, utterance, state, alone) ==
    [pc |-> pc, thread_id |-> thread_id, utterance |-> utterance,
     state |-> state, alone |-> alone]

\* No invocation was made, and the checkpointer holds no thread.
ThreadsIdle ==
    /\ th_store = <<>>
    /\ th_inv = <<>>

EdgeIdle == ExtractIdle /\ RateLimitIdle /\ A2AIdle /\ ThreadsIdle

SanitizeIdle ==
    /\ san_pc = "idle"
    /\ san_in = <<>>
    /\ san_out = NoResult

\* A caller applies sanitize_identifier to an identifier.
SanitizeCall ==
    /\ san_pc = "idle"
    /\ \E s \in Identifiers :
        /\ san_in' = s
        /\ san_out' = sanitize_identifier(s)
    /\ san_pc' = "done"
    /\ UNCHANGED <<fetchVars, supVars, wfVars, ghVars, edgeVars>>

InitSanitize ==
    SanitizeIdle /\ FetchIdle /\ SupervisorIdle /\ WorkflowIdle /\ FilingIdle
        /\ EdgeIdle
NextSanitize == SanitizeCall
SpecSanitize == InitSanitize /\ [][NextSanitize]_vars

(***************************************************************************)
(* get_gcp_logs.  One call: the arguments and the environment are chosen,  *)
(* the inputs are validated and the filters built (lines 86-136), then the *)
(* filters are queried one by one (lines 139-184).  The log store is the   *)
(* environment: each list_entries call yields up to MaxEntries entries or  *)
(* raises.                                                                 *)
(***************************************************************************)
ServiceNames ==
    { <<>>,
      <<Run("a", 2), Run("-", 1)>>,
      <<Run("a", 2), Run("QUOTE", 1)>>,
      <<Run("a", 2), Run("LF", 1)>>,
      <<Run("a", MaxIdentifierLength + 1)>> }
ProjectIds == { <<Run("Z", 1), Run("9", 2)>>, <<Run("Z", 1), Run("SPACE", 1)>> }
ServiceTypeArgs == ServiceType \cup {"invalid_type"}


\* Mutant: the project identifier is not sanitized.
SanitizeServiceNameOnly(service_name, project_id) ==
    LET sn == sanitize_identifier(service_name)
    IN  IF sn.raised THEN sn.error ELSE NoError

\* Lines 89-94: both identifiers are sanitized, service_name first; the first
\* ValueError is the error returned.
SanitizeInputs(service_name, project_id) ==
    LET sn == sanitize_identifier(service_name)
        pid == sanitize_identifier(project_id)
    IN  IF sn.raised THEN sn.error
        ELSE IF pid.raised THEN pid.error
        ELSE NoError

\* Lines 86-136: what get_gcp_logs does before its first query.  outcome is
\* "return" (an error tuple is returned), "raise" (an exception escapes) or
\* "ok" (the filters are built).
Prepare(args, project_id, now) ==
    LET bad == SanitizeInputs(args.service_name, project_id)
        tf == BuildTimeFilter(args.start_time, args.end_time, now)
        stop(outcome, error) ==
            [outcome |-> outcome, error |-> error, filters |-> <<>>,
             auto_retry_48h |-> FALSE]
    IN  IF bad # NoError THEN stop("return", bad)
        ELSE IF args.service_type \notin ServiceType
        THEN stop("return", ValueError("Unsupported service type"))
        ELSE IF tf.outcome # "ok" THEN stop(tf.outcome, tf.error)
        ELSE [outcome |-> "ok", error |-> NoError,
              filters |-> build_filter_variations(
                              SERVICE_CONFIG(args.service_type),
                              args.service_name, project_id, tf.time_filter),
              auto_retry_48h |-> tf.auto_retry_48h]

\* What one list_entries call does: n entries, or an exception; err tells an
\* unrecoverable error (authentication) from a transient one.
StoreOutcomes ==
    {[kind |-> "entries", n |-> n, err |-> "-"] : n \in 0..MaxEntries}
      \cup {[kind |-> "error", n |-> 0, err |-> e] : e \in {"auth", "transient"}}

Min(a, b) == IF a < b THEN a ELSE b

\* str(entry) of the k-th entry the store holds for a filter.
Entry(filter, k) == [filter |-> filter, k |-> k]

\* Mutant: every entry the store yields is kept.
LogEntriesUnlimited(filter, outcome, limit) ==
    [k \in 1..outcome.n |-> Entry(filter, k)]

\* [str(entry) for i, entry in enumerate(entries) if i < limit]
LogEntries(filter, outcome, limit) ==
    [k \in 1..Min(outcome.n, limit) |-> Entry(filter, k)]

StoreError(outcome) == [type |-> "Exception", msg |-> outcome.err]

\* Mutant: the first filter that yields nothing ends the call.
QueryStepStopsOnEmpty(filters, i, limit, outcome) ==
    IF outcome.kind = "error"
    THEN [pc |-> "done", ret |-> Returned(<<>>, StoreError(outcome)), i |-> i]
    ELSE [pc |-> "done",
          ret |-> Returned(LogEntries(filters[i], outcome, limit), NoError),
          i |-> i]

\* Mutant: a transient query error is passed over and the next filter tried.
QueryStepSkipsFailedFilter(filters, i, limit, outcome) ==
    IF outcome.kind = "error" /\ outcome.err = "auth"
    THEN [pc |-> "done", ret |-> Returned(<<>>, StoreError(outcome)), i |-> i]
    ELSE IF LogEntries(filters[i], outcome, limit) # <<>>
    THEN [pc |-> "done",
          ret |-> Returned(LogEntries(filters[i], outcome, limit), NoError),
          i |-> i]
    ELSE [pc |-> IF i + 1 > Len(filters) THEN "after_pass" ELSE "query",
          ret |-> NoReturn, i |-> i + 1]

\* Lines 140-154 and 166-180, one iteration: the next control point, the
\* tuple returned if any, and the index of the next filter.
QueryStep(filters, i, limit, outcome) ==
    IF outcome.kind = "error"
    THEN [pc |-> "done", ret |-> Returned(<<>>, StoreError(outcome)), i |-> i]
    ELSE IF LogEntries(filters[i], outcome, limit) # <<>>
    THEN [pc |-> "done",
          ret |-> Returned(LogEntries(filters[i], outcome, limit), NoError),
          i |-> i]
    ELSE [pc |-> IF i + 1 > Len(filters) THEN "after_pass" ELSE "query",
          ret |-> NoReturn, i |-> i + 1]

\* Mutant: the retry is not limited to the first pass.
EscalationAfterEveryPass(auto_retry_48h, pass) == auto_retry_48h

\* Lines 156-157: the 48-hour pass follows the first pass only.
EscalationDue(auto_retry_48h, pass) == auto_retry_48h /\ pass = 1

\* Lines 159-161
RetryTimeFilter(now) == TimeFilter(Iso(now - RetryLookbackHours, "Z"), Iso(now, "Z"))

\* Mutant: finding nothing is reported as an error.
EmptyReturnAsError == Returned(<<>>, ValueError("No logs found"))

\* Line 184
EmptyReturn == Returned(<<>>, NoError)

\* A handler calls get_gcp_logs.
GetGcpLogsCall ==
    /\ g_pc = "idle"
    /\ \E sn \in ServiceNames, st \in ServiceTypeArgs, lim \in 1..MaxLimit,
          s \in TimeArgs, e \in TimeArgs :
          g_args' = [service_name |-> sn, service_type |-> st, limit |-> lim,
                     start_time |-> s, end_time |-> e]
    /\ \E pid \in ProjectIds : g_env' = pid
    /\ g_pc' = "entered"
    /\ UNCHANGED <<g_now, g_filters, g_auto_retry_48h, g_pass, g_i, g_calls,
                   g_ret, g_exc, sanVars, ghVars, supVars, wfVars, edgeVars>>

\* Lines 86-136.
GetGcpLogsPrepare ==
    /\ g_pc = "entered"
    /\ LET p == Prepare(g_args, g_env, g_now)
       IN  /\ g_pc' = CASE p.outcome = "return" -> "done"
                        [] p.outcome = "raise" -> "raised"
                        [] OTHER -> "query"
           /\ g_ret' = IF p.outcome = "return"
                       THEN Returned(<<>>, p.error) ELSE NoReturn
           /\ g_exc' = IF p.outcome = "raise" THEN p.error ELSE NoError
           /\ g_filters' = p.filters
           /\ g_auto_retry_48h' = p.auto_retry_48h
           /\ g_pass' = IF p.outcome = "ok" THEN 1 ELSE 0
           /\ g_i' = IF p.outcome = "ok" THEN 1 ELSE 0
    /\ UNCHANGED <<g_args, g_env, g_now, g_calls, sanVars, ghVars, supVars, wfVars, edgeVars>>

\* Lines 140-154 and 166-180: one list_entries call and what follows it.
GetGcpLogsQuery ==
    /\ g_pc = "query"
    /\ \E outcome \in StoreOutcomes :
        LET q == QueryStep(g_filters, g_i, g_args.limit, outcome)
        IN  /\ g_calls' = Append(g_calls,
                                 [pass |-> g_pass, index |-> g_i,
                                  filter |-> g_filters[g_i],
                                  outcome |-> outcome])
            /\ g_pc' = q.pc
            /\ g_ret' = q.ret
            /\ g_i' = q.i
    /\ UNCHANGED <<g_args, g_env, g_now, g_filters, g_auto_retry_48h, g_pass,
                   g_exc, sanVars, ghVars, supVars, wfVars, edgeVars>>

\* Lines 157-164: the filters are rebuilt with the 48-hour window.
GetGcpLogsEscalate ==
    /\ g_pc = "after_pass"
    /\ EscalationDue(g_auto_retry_48h, g_pass)
    /\ g_filters' = build_filter_variations(
                        SERVICE_CONFIG(g_args.service_type),
                        g_args.service_name, g_env, RetryTimeFilter(g_now))
    /\ g_pass' = g_pass + 1
    /\ g_i' = 1
    /\ g_pc' = "query"
    /\ UNCHANGED <<g_args, g_env, g_now, g_auto_retry_48h, g_calls, g_ret,
                   g_exc, sanVars, ghVars, supVars, wfVars, edgeVars>>

\* Lines 182-184.
GetGcpLogsReturnEmpty ==
    /\ g_pc = "after_pass"
    /\ ~EscalationDue(g_auto_retry_48h, g_pass)
    /\ g_ret' = EmptyReturn
    /\ g_pc' = "done"
    /\ UNCHANGED <<g_args, g_env, g_now, g_filters, g_auto_retry_48h, g_pass,
                   g_i, g_calls, g_exc, sanVars, ghVars, supVars, wfVars, edgeVars>>

\* datetime.utcnow() advances while the call runs.
Tick ==
    /\ g_pc \in {"entered", "query", "after_pass"}
    /\ g_now < MaxTicks
    /\ g_now' = g_now + 1
    /\ UNCHANGED <<g_pc, g_args, g_env, g_filters, g_auto_retry_48h, g_pass,
                   g_i, g_calls, g_ret, g_exc, sanVars, ghVars, supVars, wfVars, edgeVars>>

Init == FetchIdle /\ SanitizeIdle /\ SupervisorIdle /\ WorkflowIdle /\ FilingIdle
        /\ EdgeIdle
Next ==
    \/ GetGcpLogsCall
    \/ GetGcpLogsPrepare
    \/ GetGcpLogsQuery
    \/ GetGcpLogsEscalate
    \/ GetGcpLogsReturnEmpty
    \/ Tick
Spec == Init /\ [][Next]_vars

(***************************************************************************)
(* C8: sanitize_identifier fails for every identifier that is empty,       *)
(* longer than 255 characters or holds a character outside [A-Za-z0-9._-], *)
(* and returns every other identifier unchanged.                           *)
(***************************************************************************)
MustBeRejected(s) ==
    \/ s = <<>>
    \/ StrLen(s) > MaxIdentifierLength
    \/ ~(CharsOf(s) \subseteq AllowedChars)

C8_SanitizeRejectsExactly ==
    san_pc = "done" =>
        /\ MustBeRejected(san_in) => san_out.raised
        /\ ~MustBeRejected(san_in) =>
               (~san_out.raised /\ san_out.value = san_in)


(***************************************************************************)
(* supervisor_agent applied to one completion text.                        *)
(***************************************************************************)
\* Line 64: model.generate_content(prompt) answers with a text.
SupervisorComplete ==
    /\ sup_pc = "idle"
    /\ \E text \in CompletionTexts : sup_text' = text
    /\ sup_completions' = sup_completions + 1
    /\ sup_pc' = "completed"
    /\ UNCHANGED <<sup_out, sanVars, ghVars, fetchVars, wfVars, edgeVars>>

\* A text that does not parse makes supervisor_agent ask the completion again.
SupervisorParseRetriesMalformed ==
    /\ sup_pc = "completed"
    /\ IF JsonLoads(StripFence(Strip(sup_text))) = "error"
       THEN /\ sup_pc' = "idle"
            /\ sup_out' = sup_out
       ELSE /\ sup_out' = supervisor_agent(sup_text)
            /\ sup_pc' = IF supervisor_agent(sup_text).raised = "None"
                         THEN "done" ELSE "raised"
    /\ UNCHANGED <<sup_text, sup_completions, sanVars, ghVars, fetchVars, wfVars, edgeVars>>

\* Lines 65-81: the text is parsed and the decision returned.
SupervisorParse ==
    /\ sup_pc = "completed"
    /\ sup_out' = supervisor_agent(sup_text)
    /\ sup_pc' = IF supervisor_agent(sup_text).raised = "None"
                 THEN "done" ELSE "raised"
    /\ UNCHANGED <<sup_text, sup_completions, sanVars, ghVars, fetchVars, wfVars, edgeVars>>

InitSupervisor ==
    SanitizeIdle /\ FetchIdle /\ SupervisorIdle /\ WorkflowIdle /\ FilingIdle
        /\ EdgeIdle
NextSupervisor == SupervisorComplete \/ SupervisorParse
SpecSupervisor == InitSupervisor /\ [][NextSupervisor]_vars

(***************************************************************************)
(* The turns of one thread of the compiled graph.                          *)
(***************************************************************************)
\* What the users of the model say and ask for: a question that names no
\* service and no time, or one that names a service and a time window.
TurnPhrases == {"none", "gke"}
Utterances ==
    {[phrase |-> phrase,
      name |-> IF phrase = "none" THEN "None" ELSE "vllm-gemma",
      window |-> IF phrase = "none" THEN "none" ELSE "last hour"] :
        phrase \in TurnPhrases}
ServiceIdentities ==
    {[name |-> "None", type |-> "cloud_run"],
     [name |-> "my-service", type |-> "app_engine"]}
\* The completions the router is answered with in a turn.
WorkflowCompletions ==
    {t \in CompletionTexts :
        /\ ~t.pad
        /\ t.fence = "none"
        /\ t.issue_content = "None"
        /\ t.kind \in {"object", "bare"}
        /\ (t.kind = "bare" => t.word = "log_explorer")
        /\ (t.word = "github_issue_manager" => t.repo_url # "None")
        /\ (t.word = "ask_for_repo_url" => t.repo_url = "None")
        /\ t.word \in {"log_explorer", "github_issue_manager",
                       "ask_for_repo_url"}}

\* The engine starts a turn: the input is written to the channels of the
\* thread and the checkpoint saved, and the entry node is next.
StartTurn(style, utterance, input) ==
    /\ wf_turn < MaxTurns
    /\ wf_turn' = wf_turn + 1
    /\ wf_input' = [style |-> style, utterance |-> utterance, input |-> input]
    /\ wf_pre' = wf_checkpoint
    /\ wf_state' = ApplyInput(wf_checkpoint, input)
    /\ wf_checkpoint' = ApplyInput(wf_checkpoint, input)
    /\ wf_trace' = <<>>
    /\ wf_exc' = "None"
    /\ wf_effects' = <<>>
    /\ wf_router' = NoDecision
    /\ wf_fetches' = <<>>
    /\ wf_pc' = "supervisor"

\* Lines 448-473: a2a_execute invokes the workflow on a thread of its own.
WorkflowInvoke ==
    /\ wf_pc = "idle"
    /\ \E utterance \in Utterances, service \in ServiceIdentities,
          repo_url \in RepoUrls \cup {"None"} :
          StartTurn("a2a", utterance,
                    InitialState(UserQuery(utterance), service.name,
                                 service.type, repo_url))
    /\ UNCHANGED <<sanVars, ghVars, fetchVars, supVars, edgeVars>>

\* tests/test_conversation.py 40-80: a caller invokes the workflow with a
\* message on a thread, new or one whose turn is over.
ThreadTurn ==
    /\ wf_pc \in {"idle", "END", "failed"}
    /\ \E utterance \in Utterances :
          StartTurn("message", utterance, MessageOnly(UserQuery(utterance)))
    /\ UNCHANGED <<sanVars, ghVars, fetchVars, supVars, edgeVars>>

\* A node has run: its update is merged and the checkpoint saved, or its
\* exception ends the turn and leaves the checkpoint as the last node left it.
NodeDone(node, raised, exc, state, effects) ==
    /\ wf_trace' = Append(wf_trace, node)
    /\ wf_effects' = wf_effects \o effects
    /\ IF raised
       THEN /\ wf_exc' = exc
            /\ wf_pc' = "failed"
            /\ UNCHANGED <<wf_state, wf_checkpoint>>
       ELSE /\ wf_exc' = wf_exc
            /\ wf_pc' = NextNode(node, state)
            /\ wf_state' = state
            /\ wf_checkpoint' = state
    /\ UNCHANGED <<wf_input, wf_pre, wf_turn>>

\* The entry node.
WorkflowSupervisor ==
    /\ wf_pc = "supervisor"
    /\ \E completion \in WorkflowCompletions :
        LET out == supervisor_node(wf_state, wf_input.utterance, completion)
        IN  /\ wf_router' = IF out.called_agent
                            THEN supervisor_agent(completion) ELSE NoDecision
            /\ NodeDone("supervisor", out.raised # "None", out.raised,
                        out.state,
                        IF out.called_agent THEN <<"completion">> ELSE <<>>)
    /\ UNCHANGED <<wf_fetches, sanVars, ghVars, fetchVars, supVars, edgeVars>>

\* Lines 144-162: log_explorer_agent is called with the service, the query
\* and the messages, and with no start_time or end_time (lines 155-160).
WorkflowLogExplorer ==
    /\ wf_pc = "log_explorer"
    /\ \E out \in log_explorer_agent(wf_state.service_name,
                                     wf_state.service_type,
                                     TimeNone, TimeNone) :
        /\ NodeDone("log_explorer", out.raised, "CompletionError",
                    log_explorer_node(wf_state, out.value), out.effects)
        /\ wf_fetches' = Append(wf_fetches,
                                [node |-> "log_explorer",
                                 call |-> out.fetch.call])
    /\ UNCHANGED <<wf_router, sanVars, ghVars, fetchVars, supVars, edgeVars>>

WorkflowIssueCreation ==
    /\ wf_pc = "issue_creation"
    /\ \E out \in issue_creation_agent(wf_state.service_name,
                                       wf_state.git_repo_url) :
        /\ NodeDone("issue_creation", out.raised, "CompletionError",
                    issue_creation_node(wf_state, out.value), out.effects)
        /\ wf_fetches' = Append(wf_fetches,
                                [node |-> "issue_creation",
                                 call |-> out.fetch.call])
    /\ UNCHANGED <<wf_router, sanVars, ghVars, fetchVars, supVars, edgeVars>>

WorkflowGithubIssueManager ==
    /\ wf_pc = "github_issue_manager"
    /\ \E out \in github_issue_manager_agent(wf_state.issues,
                                             wf_state.git_repo_url) :
        NodeDone("github_issue_manager", FALSE, "None",
                 github_issue_manager_node(wf_state, out.value), out.effects)
    /\ UNCHANGED <<wf_router, wf_fetches, sanVars, ghVars, fetchVars, supVars, edgeVars>>

\* The nodes no edge leads to.
WorkflowTerminalHandler ==
    /\ wf_pc \in {"solutions", "ask_for_repo_url", "code_fixer"}
    /\ NodeDone(wf_pc, FALSE, "None",
                IF wf_pc = "ask_for_repo_url"
                THEN ask_for_repo_url_node(wf_state) ELSE wf_state, <<>>)
    /\ UNCHANGED <<wf_router, wf_fetches, sanVars, ghVars, fetchVars, supVars, edgeVars>>

InitWorkflow ==
    SanitizeIdle /\ FetchIdle /\ SupervisorIdle /\ WorkflowIdle /\ FilingIdle
        /\ EdgeIdle
NextWorkflow ==
    \/ WorkflowInvoke
    \/ ThreadTurn
    \/ WorkflowSupervisor
    \/ WorkflowLogExplorer
    \/ WorkflowIssueCreation
    \/ WorkflowGithubIssueManager
SpecWorkflow == InitWorkflow /\ [][NextWorkflow]_vars

\* The engine runs on: a node that is next runs.
FairWorkflow ==
    /\ WF_vars(WorkflowSupervisor)
    /\ WF_vars(WorkflowLogExplorer)
    /\ WF_vars(WorkflowIssueCreation)
    /\ WF_vars(WorkflowGithubIssueManager)
SpecWorkflowFair == SpecWorkflow /\ FairWorkflow

(***************************************************************************)
(* github_issue_manager_agent (github_issue_manager.py) filing a list of   *)
(* issues against a tracker.  Descriptions and titles are run-length       *)
(* encoded strings, as identifiers are.                                    *)
(***************************************************************************)
\* s[:k]
RECURSIVE Take(_, _)
Take(s, k) ==
    IF k <= 0 \/ s = <<>> THEN <<>>
    ELSE IF Head(s).n >= k THEN <<Run(Head(s).ch, k)>>
    ELSE <<Head(s)>> \o Take(Tail(s), k - Head(s).n)

\* s + t
Concat(s, t) ==
    IF s = <<>> THEN t
    ELSE IF t = <<>> THEN s
    ELSE IF s[Len(s)].ch = t[1].ch
    THEN SubSeq(s, 1, Len(s) - 1)
             \o <<Run(t[1].ch, s[Len(s)].n + t[1].n)>> \o Tail(t)
    ELSE s \o t

\* s.startswith(p)
StartsWith(s, p) == StrLen(p) <= StrLen(s) /\ Take(s, StrLen(p)) = p

\* Line 76: issue.description[:256]
TitleOf(description) == Take(description, TitleLength)

\* Lines 87 and 93: the reason of a skip, after its first words "Issue '":
\* title[:100], then "...' already exists and is open" or "...' is closed
\* with 'wontfix' label".
SkipReason(title, kind) ==
    [kind |-> kind,
     text |-> Concat(Take(title, ReasonTitleLength),
                     <<Run(".", 3), Run("QUOTE", 1)>>)]

\* Lines 80-99: the reason issue title is skipped for, given the items the
\* tracker lists: that of the first item of that title that is open, or
\* closed and labelled wontfix; "none" when there is no such item.
RECURSIVE SkipFor(_, _)
SkipFor(title, existing_issues) ==
    IF existing_issues = <<>> THEN "none"
    ELSE LET existing_issue == Head(existing_issues)
         IN  IF existing_issue.title = title /\ existing_issue.state = "open"
             THEN "open"
             ELSE IF /\ existing_issue.title = title
                     /\ existing_issue.state = "closed"
                     /\ "wontfix" \in existing_issue.labels
             THEN "wontfix"
             ELSE SkipFor(title, Tail(existing_issues))

ExistingTitles(existing_issues) ==
    {existing_issues[k].title : k \in DOMAIN existing_issues}

\* Line 105: the issue is created when its title is not listed or no reason
\* collected so far starts with "Issue '" and title[:100].
ShouldCreate(title, existing_issues, skipped_reasons, skip) ==
    \/ title \notin ExistingTitles(existing_issues)
    \/ ~\E k \in DOMAIN skipped_reasons :
           StartsWith(skipped_reasons[k].text, Take(title, ReasonTitleLength))

\* What the filing is about.
Descriptions ==
    { <<Run("a", ReasonTitleLength)>>,
      <<Run("a", TitleLength)>>,
      <<Run("a", TitleLength + 1)>>,
      <<Run("b", 1)>> }
IssueLists ==
    UNION {[1..n -> Descriptions] : n \in 1..MaxIssues}
TrackerItems ==
    {[title |-> TitleOf(d), state |-> st.state, labels |-> st.labels] :
        d \in Descriptions,
        st \in {[state |-> "open", labels |-> {}],
                [state |-> "closed", labels |-> {"bug"}],
                [state |-> "closed", labels |-> {"wontfix"}]}}
TrackerLists ==
    UNION {[1..n -> TrackerItems] : n \in 0..MaxExisting}

\* github_tool.py 4-28: the items of the tracker, open and closed; every
\* exception of the listing is caught and printed, and the empty list is
\* returned.
get_github_issues(tracker, listed) ==
    IF listed THEN tracker ELSE <<>>

\* Lines 9 and 44-72: the agent is called with issues; existing_issues is
\* what get_github_issues returns.
GithubIssueManagerCall ==
    /\ gh_pc = "idle"
    /\ \E issues \in IssueLists, tracker \in TrackerLists, listed \in BOOLEAN :
        /\ gh_issues' = issues
        /\ gh_existing' = get_github_issues(tracker, listed)
        /\ gh_listing' = IF listed THEN "ok" ELSE "failed"
    /\ gh_i' = 1
    /\ gh_pc' = "loop"
    /\ UNCHANGED <<gh_skipped_reasons, gh_log,
                   sanVars, fetchVars, supVars, wfVars, edgeVars>>

\* Lines 74-125: one issue of the list.  decision is what happened to it:
\* "skipped", "created", "error" (create_issue raised) or "dropped" (neither
\* skipped nor created).
GithubIssueManagerStep ==
    /\ gh_pc = "loop"
    /\ gh_i <= Len(gh_issues)
    /\ LET title == TitleOf(gh_issues[gh_i])
           skip == SkipFor(title, gh_existing)
           reasons == IF skip = "none" THEN gh_skipped_reasons
                      ELSE Append(gh_skipped_reasons, SkipReason(title, skip))
           create == ShouldCreate(title, gh_existing, reasons, skip)
       IN  /\ gh_skipped_reasons' = reasons
           /\ \E tracker_ok \in BOOLEAN :
                /\ ~create => tracker_ok
                /\ gh_log' = Append(gh_log,
                      [title |-> title,
                       skipped |-> skip # "none",
                       reason |-> skip,
                       create_calls |-> IF create THEN 1 ELSE 0,
                       created |-> create /\ tracker_ok])
    /\ gh_i' = gh_i + 1
    /\ UNCHANGED <<gh_pc, gh_issues, gh_existing, gh_listing,
                   sanVars, fetchVars, supVars, wfVars, edgeVars>>

\* Lines 127-148: the status message is returned.
GithubIssueManagerReturn ==
    /\ gh_pc = "loop"
    /\ gh_i > Len(gh_issues)
    /\ gh_pc' = "done"
    /\ UNCHANGED <<gh_issues, gh_existing, gh_i, gh_skipped_reasons, gh_log,
                   gh_listing, sanVars, fetchVars, supVars, wfVars, edgeVars>>

\* Lines 127-148: the status message, "Created {created_issues} GitHub
\* issue(s), skipped {skipped_issues}." followed by the skip reasons and the
\* error messages.  created_issues is raised after a create_issue that
\* returned (line 121), skipped_issues with every reason appended (lines
\* 84-100), and an error message is appended when create_issue raised
\* (lines 123-125).
StatusMessage(log, skipped_reasons) ==
    [created_issues |->
         Cardinality({k \in DOMAIN log : log[k].created}),
     skipped_issues |->
         Cardinality({k \in DOMAIN log : log[k].skipped}),
     skipped_reasons |-> skipped_reasons,
     error_messages |->
         Cardinality({k \in DOMAIN log :
                          log[k].create_calls = 1 /\ ~log[k].created})]

InitFiling ==
    SanitizeIdle /\ FetchIdle /\ SupervisorIdle /\ WorkflowIdle /\ FilingIdle
        /\ EdgeIdle
NextFiling ==
    \/ GithubIssueManagerCall
    \/ GithubIssueManagerStep
    \/ GithubIssueManagerReturn
SpecFiling == InitFiling /\ [][NextFiling]_vars

(***************************************************************************)
(* supervisor_node extracting the service of a query.                      *)
(***************************************************************************)
TextChars == {"a", "-", "QUOTE", "SPACE", ",", "@"}
TextRuns == [ch : TextChars, n : {1}] \cup {Run("a", 2)}
\* my@service
InvalidName == <<Run("a", 1), Run("@", 1), Run("a", 1)>>
Texts ==
    {s \in UNION {[1..k -> TextRuns] : k \in 0..MaxRuns} : IsCanonical(s)}
Mention(phrase, logs_for, text) ==
    [phrase |-> phrase, logs_for |-> logs_for, text |-> text]
Phrases == {service_patterns[k].phrase : k \in DOMAIN service_patterns}
\* The first mention of a query says anything; a second is a phrase and a
\* name, or a phrase and a text that holds no name.
FirstMentions ==
    {Mention(p, l, t) : p \in Phrases, l \in BOOLEAN, t \in Texts}
        \cup {Mention(p, FALSE, InvalidName) : p \in Phrases}
SecondMentions ==
    {Mention(p, FALSE, t) :
        p \in Phrases, t \in {<<Run("-", 1)>>, InvalidName}}
UserQueries ==
    {<<>>} \cup {<<m>> : m \in FirstMentions}
           \cup {<<m, n>> : m \in FirstMentions, n \in SecondMentions}
\* What the state holds when supervisor_node runs: no service, or one.
StateIdentities ==
    {Identity(<<>>, "cloud_run"), Identity(<<>>, "app_engine"),
     Identity(<<Run("Z", 1)>>, "app_engine")}

\* supervisor_node runs on a state and a query (lines 69-108).
ExtractCall ==
    /\ ex_pc = "idle"
    /\ \E given \in StateIdentities, user_query \in UserQueries :
        /\ ex_in' = [state_name |-> given.name, state_type |-> given.type,
                     user_query |-> user_query]
        /\ ex_out' = ExtractIdentity(given.name, given.type, user_query)
    /\ ex_pc' = "done"
    /\ UNCHANGED <<coreVars, rlVars, a2aVars, thVars>>

InitExtract ==
    SanitizeIdle /\ FetchIdle /\ SupervisorIdle /\ WorkflowIdle /\ FilingIdle
        /\ EdgeIdle
NextExtract == ExtractCall
SpecExtract == InitExtract /\ [][NextExtract]_vars

(***************************************************************************)
(* Requests arriving at the rate limiter.                                  *)
(***************************************************************************)
\* How many requests of one caller arrive at one instant, and how long
\* after the arrival before.
BurstSizes == {1, max_requests - 1}
ClockSteps == {0, window_seconds - 1, window_seconds}

\* Lines 34-66: k requests of a caller are checked, d seconds after the
\* check before; time.time() does not go back.
RateLimitCheck ==
    /\ rl_calls < MaxChecks
    /\ \E caller \in Callers, k \in BurstSizes, d \in ClockSteps :
        LET after == CheckTimes(Limiter(rl_requests, rl_accepted, rl_last),
                                caller, rl_now + d, k)
        IN  /\ rl_now' = rl_now + d
            /\ rl_requests' = after.requests
            /\ rl_accepted' = after.accepted
            /\ rl_last' = after.last
    /\ rl_calls' = rl_calls + 1
    /\ UNCHANGED <<coreVars, exVars, a2aVars, thVars>>

InitRateLimit ==
    SanitizeIdle /\ FetchIdle /\ SupervisorIdle /\ WorkflowIdle /\ FilingIdle
        /\ EdgeIdle
NextRateLimit == RateLimitCheck
SpecRateLimit == InitRateLimit /\ [][NextRateLimit]_vars

(***************************************************************************)
(* /a2a/execute.  The workflow runs on the variables of the graph; the     *)
(* checkpointer's threads of the requests answered are in a2a_store, and   *)
(* the thread of the request in hand is wf_checkpoint.                     *)
(***************************************************************************)
SkillIds == {"analyze_and_monitor_logs", "unknown_skill"}
\* The requests: one that passes every check, whose input names no service,
\* with or without a repository and the id of a thread, or names a service
\* (WorkflowInvoke of SpecWorkflow has the other inputs of the graph); and
\* requests that differ from it in the header, the token, the skill or the
\* query.
NoService == [name |-> "None", type |-> "cloud_run"]
GoodInput == A2AInput(TRUE, NoInput.utterance, NoService, "None", 0)
A2AInputs(threads) ==
    {A2AInput(TRUE, NoInput.utterance, NoService, r, t) :
        r \in RepoUrls \cup {"None"}, t \in 0..threads}
        \cup {A2AInput(TRUE, NoInput.utterance, s, "None", 0) :
                s \in ServiceIdentities}
        \cup {A2AInput(FALSE, NoInput.utterance, NoService, "None", 0)}
A2ARequests(threads) ==
    {A2ARequest("Bearer", Token(TRUE, c), "analyze_and_monitor_logs", i) :
        c \in Callers, i \in A2AInputs(threads)}
        \cup {A2ARequest(a, t, s, GoodInput) :
                a \in {"None", "Basic", "Bearer"}, t \in Tokens,
                s \in SkillIds}

\* A request arrives.
A2AReceive ==
    /\ a2a_pc \in {"idle", "responded", "rejected"}
    /\ a2a_count < MaxA2ARequests
    /\ \E request \in A2ARequests(Len(a2a_store)) : a2a_request' = request
    /\ a2a_pc' = "received"
    /\ a2a_caller' = "None"
    /\ a2a_log' = <<>>
    /\ a2a_response' = NoResponse
    /\ a2a_thread_id' = 0
    /\ a2a_count' = a2a_count + 1
    /\ UNCHANGED <<a2a_allowed, a2a_store, coreVars, exVars, rlVars, thVars>>

\* main.py 428: Depends(authenticator.verify_token).
A2AVerifyToken ==
    /\ a2a_pc = "received"
    /\ LET v == verify_token(a2a_request.authorization, a2a_request.token,
                             a2a_allowed)
       IN  /\ a2a_log' = v.steps
           /\ a2a_caller' = v.caller
           /\ IF v.status = 200
              THEN a2a_pc' = "verified" /\ a2a_response' = a2a_response
              ELSE a2a_pc' = "rejected"
                     /\ a2a_response' = HTTPException(v.status)
    /\ UNCHANGED <<a2a_request, a2a_allowed, a2a_thread_id, a2a_store,
                   a2a_count, coreVars, exVars, rlVars, thVars>>

\* main.py 439: await rate_limiter.check_rate_limit(caller).
A2ARateLimit ==
    /\ a2a_pc = "verified"
    /\ LET after == CheckOnce(Limiter(rl_requests, rl_accepted, rl_last),
                              a2a_caller, rl_now)
       IN  /\ rl_requests' = after.requests
           /\ rl_accepted' = after.accepted
           /\ rl_last' = after.last
           /\ IF after.last.status = 200
              THEN /\ a2a_pc' = "limited"
                   /\ a2a_log' = Append(a2a_log, "rate_limit_passed")
                   /\ a2a_response' = a2a_response
              ELSE /\ a2a_pc' = "rejected"
                   /\ a2a_log' = a2a_log
                   /\ a2a_response' = HTTPException(429)
    /\ UNCHANGED <<rl_now, rl_calls, a2a_request, a2a_allowed, a2a_caller,
                   a2a_thread_id, a2a_store, a2a_count,
                   coreVars, exVars, thVars>>

\* Other requests of a caller on the allow-list pass the limiter, one fewer
\* than a window admits.
A2AOtherRequests ==
    /\ a2a_pc = "idle"
    /\ rl_calls < 1
    /\ \E caller \in a2a_allowed :
        LET after == CheckTimes(Limiter(rl_requests, rl_accepted, rl_last),
                                caller, rl_now, max_requests - 1)
        IN  /\ rl_requests' = after.requests
            /\ rl_accepted' = after.accepted
            /\ rl_last' = after.last
    /\ rl_calls' = rl_calls + 1
    /\ UNCHANGED <<rl_now, a2aVars, coreVars, exVars, thVars>>

\* main.py 441-473: the skill and the query are validated, and the workflow
\* is invoked on a thread whose id is new (uuid4, line 468); the thread_id
\* of the input is not read.
A2AInvoke ==
    /\ a2a_pc = "limited"
    /\ IF a2a_request.skill_id # "analyze_and_monitor_logs"
       THEN /\ a2a_pc' = "rejected"
            /\ a2a_response' = HTTPException(404)
            /\ UNCHANGED <<a2a_thread_id, wfVars>>
       ELSE IF ~a2a_request.input.has_query
       THEN /\ a2a_pc' = "rejected"
            /\ a2a_response' = HTTPException(400)
            /\ UNCHANGED <<a2a_thread_id, wfVars>>
       ELSE /\ a2a_pc' = "invoked"
            /\ a2a_response' = a2a_response
            /\ a2a_thread_id' = Len(a2a_store) + 1
            /\ StartTurn("a2a", a2a_request.input.utterance,
                         InitialState(UserQuery(a2a_request.input.utterance),
                                      a2a_request.input.service.name,
                                      a2a_request.input.service.type,
                                      a2a_request.input.repo_url))
    /\ UNCHANGED <<a2a_request, a2a_allowed, a2a_caller, a2a_log, a2a_store,
                   a2a_count, sanVars, fetchVars, supVars, ghVars,
                   exVars, rlVars, thVars>>

\* main.py 475-520: the state invoke returned is formatted, or the
\* exception that escaped it reported; the thread stays with the
\* checkpointer and the request's run of the graph is over.
A2ARespond ==
    /\ a2a_pc = "invoked"
    /\ wf_pc \in {"END", "failed"}
    /\ a2a_response' =
         IF wf_pc = "END"
         THEN A2AResponse(200, TRUE,
                  Result(wf_state.service_name, wf_state.service_type,
                         IF wf_state.log_reviewer_history = <<>> THEN "None"
                         ELSE wf_state.log_reviewer_history[
                                  Len(wf_state.log_reviewer_history)],
                         Len(wf_state.issues),
                         wf_state.orchestrator_history),
                  "None")
         ELSE A2AResponse(200, FALSE, EmptyResult, wf_exc)
    /\ a2a_store' = Append(a2a_store, wf_checkpoint)
    /\ a2a_pc' = "responded"
    /\ wf_pc' = "idle"
    /\ wf_input' = NoInput
    /\ wf_state' = NoChannels
    /\ wf_trace' = <<>>
    /\ wf_exc' = "None"
    /\ wf_checkpoint' = NoChannels
    /\ wf_pre' = NoChannels
    /\ wf_turn' = 0
    /\ wf_effects' = <<>>
    /\ wf_router' = NoDecision
    /\ wf_fetches' = <<>>
    /\ UNCHANGED <<a2a_request, a2a_allowed, a2a_caller, a2a_log,
                   a2a_thread_id, a2a_count, sanVars, fetchVars, supVars,
                   ghVars, exVars, rlVars, thVars>>

\* The allow-list is what the environment held when the process started.
InitA2A ==
    /\ SanitizeIdle /\ FetchIdle /\ SupervisorIdle /\ WorkflowIdle
    /\ FilingIdle /\ ExtractIdle /\ RateLimitIdle /\ ThreadsIdle
    /\ A2AQuiet
    /\ a2a_allowed \in AllowLists
NextA2A ==
    \/ A2AReceive
    \/ A2AVerifyToken
    \/ A2ARateLimit
    \/ A2AOtherRequests
    \/ A2AInvoke
    \/ WorkflowSupervisor
    \/ WorkflowLogExplorer
    \/ WorkflowIssueCreation
    \/ WorkflowGithubIssueManager
    \/ A2ARespond
SpecA2A == InitA2A /\ [][NextA2A]_vars

(***************************************************************************)
(* Vocabulary of the claims about get_gcp_logs.                            *)
(***************************************************************************)
Started == g_pc \notin {"idle", "entered"}
Table ==
    IF g_args.service_type \in ServiceType
    THEN SERVICE_CONFIG(g_args.service_type).filter_variations ELSE <<>>
NumTemplates == Len(Table)
\* The store held at least one entry / no entry for the filter of call c.
CallYields(c) == c.outcome.kind = "entries" /\ c.outcome.n >= 1
CallEmpty(c) == c.outcome.kind = "entries" /\ c.outcome.n = 0
CallFailed(c) == c.outcome.kind = "error"
\* logs holds entries of the filter of call c, from the first on.
LogsAreEntriesOf(logs, c) ==
    /\ Len(logs) >= 1
    /\ Len(logs) <= c.outcome.n
    /\ \A j \in 1..Len(logs) : logs[j] = [filter |-> c.filter, k |-> j]
\* Call k is the query that follows call k-1 in the table order of one pass,
\* and opens a pass only after the whole table was tried in the pass before.
InTableOrder(k) ==
    LET c == g_calls[k]
    IN  /\ c.filter.clause.lhs = Table[c.index].lhs
        /\ IF k = 1 THEN c.index = 1
           ELSE \/ /\ c.pass = g_calls[k - 1].pass
                   /\ c.index = g_calls[k - 1].index + 1
                \/ /\ c.pass = g_calls[k - 1].pass + 1
                   /\ c.index = 1
                   /\ g_calls[k - 1].index = NumTemplates
\* An empty result of call k is followed by the query of the next filter: it
\* was issued, or it is the very next step of the call.
EmptyIsFollowed(k) ==
    LET c == g_calls[k]
    IN  (CallEmpty(c) /\ c.index < NumTemplates) =>
            \/ /\ k < Len(g_calls)
               /\ g_calls[k + 1].pass = c.pass
               /\ g_calls[k + 1].index = c.index + 1
            \/ /\ k = Len(g_calls)
               /\ g_pc = "query"
               /\ g_i = c.index + 1
ExplicitWindow ==
    g_args.start_time.kind # "none" /\ g_args.end_time.kind # "none"
Comparable ==
    /\ g_args.start_time.kind = "iso"
    /\ g_args.end_time.kind = "iso"
    /\ g_args.start_time.tz = g_args.end_time.tz
Span == g_args.end_time.t - g_args.start_time.t
WindowHours(f) == f.time_filter.end.t - f.time_filter.start.t

(***************************************************************************)
(* C1: within one pass the filters are queried in the order of the         *)
(* category's template table; the call returns the entries of the first    *)
(* filter that yields an entry and queries no later filter; a filter that  *)
(* yields nothing is followed by the query of the next filter.             *)
(***************************************************************************)
C1_FirstNonEmptyFilterInTableOrder ==
    \A k \in 1..Len(g_calls) :
        /\ InTableOrder(k)
        /\ EmptyIsFollowed(k)
        /\ CallYields(g_calls[k]) =>
              /\ k = Len(g_calls)
              /\ g_pc = "done"
              /\ LogsAreEntriesOf(g_ret.logs, g_calls[k])
              /\ g_ret.error = NoError

\* Templates [A, B], entries for B only: A is queried, then B, and B's
\* entries are returned without an error.
C1_Witness ==
    /\ g_pc = "done"
    /\ g_args.service_type = "cloud_run"
    /\ Len(g_calls) = 2
    /\ CallEmpty(g_calls[1])
    /\ g_calls[1].filter.clause.lhs = "resource.labels.service_name"
    /\ CallYields(g_calls[2])
    /\ g_calls[2].filter.clause.lhs = "resource.labels.configuration_name"
    /\ LogsAreEntriesOf(g_ret.logs, g_calls[2])
    /\ g_ret.error = NoError

(***************************************************************************)
(* C2: with no explicit window, when every filter of the 24-hour pass      *)
(* yields nothing there is exactly one further pass, over the same         *)
(* templates with a 48-hour window, whose first non-empty result is        *)
(* returned; a call issues at most 2 x (number of templates) queries.      *)
(***************************************************************************)
FirstPassEmpty ==
    /\ Len(g_calls) >= NumTemplates
    /\ \A k \in 1..NumTemplates : CallEmpty(g_calls[k])

C2_OneEscalationPass ==
    (Len(g_calls) >= 1) =>
        /\ Len(g_calls) <= 2 * NumTemplates
        /\ \A k \in 1..Len(g_calls) :
              /\ g_calls[k].pass \in {1, 2}
              /\ g_calls[k].pass = 2 => (~ExplicitWindow /\ FirstPassEmpty)
              /\ (~ExplicitWindow /\ g_calls[k].pass = 1) =>
                     WindowHours(g_calls[k].filter) = DefaultLookbackHours
        /\ (~ExplicitWindow /\ FirstPassEmpty /\ g_pc = "done") =>
              /\ Len(g_calls) > NumTemplates
              /\ \A k \in (NumTemplates + 1)..Len(g_calls) :
                    /\ g_calls[k].pass = 2
                    /\ g_calls[k].index = k - NumTemplates
                    /\ g_calls[k].filter.clause =
                           g_calls[k - NumTemplates].filter.clause
                    /\ WindowHours(g_calls[k].filter) = RetryLookbackHours
                    /\ CallYields(g_calls[k]) =>
                           /\ k = Len(g_calls)
                           /\ LogsAreEntriesOf(g_ret.logs, g_calls[k])

\* The 24-hour pass found nothing and the first filter of the 48-hour pass
\* yields the entries returned.
C2_Witness ==
    /\ g_pc = "done"
    /\ ~ExplicitWindow
    /\ g_args.service_type = "cloud_run"
    /\ Len(g_calls) = 3
    /\ FirstPassEmpty
    /\ g_calls[3].pass = 2
    /\ CallYields(g_calls[3])
    /\ g_ret.logs # <<>>

(***************************************************************************)
(* C3: with an explicit window of at most 48 hours every query carries the *)
(* time clause of exactly that window, and there is no escalation pass: if *)
(* every filter is empty the call returns after at most (number of         *)
(* templates) queries.                                                     *)
(***************************************************************************)
C3_ExplicitWindowNoEscalation ==
    (ExplicitWindow /\ Comparable /\ Span <= MaxRangeHours /\ Started) =>
        /\ ~g_auto_retry_48h
        /\ Len(g_calls) <= NumTemplates
        /\ \A k \in 1..Len(g_calls) :
              /\ g_calls[k].pass = 1
              /\ g_calls[k].filter.time_filter =
                     [start |-> g_args.start_time, end |-> g_args.end_time]
        /\ (g_pc = "after_pass") => (Len(g_calls) = NumTemplates /\ g_pass = 1)
        /\ (g_pass > 1) => FALSE

\* An explicit one-hour window, every filter empty: the call is over after one
\* pass.
C3_Witness ==
    /\ g_pc = "done"
    /\ ExplicitWindow /\ Comparable /\ Span = 1
    /\ g_args.service_type = "gke"
    /\ Len(g_calls) = 3
    /\ \A k \in 1..3 : CallEmpty(g_calls[k])
    /\ g_ret = [logs |-> <<>>, page_token |-> "None", error |-> NoError]

(***************************************************************************)
(* C4: an explicit range of more than 48 hours is answered with an error   *)
(* and empty logs (no query is made); a range of exactly 48 hours is       *)
(* accepted and the fetch proceeds to its queries.  The range is that of   *)
(* two timestamps that can be subtracted (both with or both without a      *)
(* timezone).                                                              *)
(***************************************************************************)
InputsValid ==
    /\ ~sanitize_identifier(g_args.service_name).raised
    /\ ~sanitize_identifier(g_env).raised
    /\ g_args.service_type \in ServiceType

C5_NoLogsIsNotAnError ==
    (/\ g_pc = "done"
     /\ Len(g_calls) >= 1
     /\ \A k \in 1..Len(g_calls) : CallEmpty(g_calls[k])) =>
        g_ret = [logs |-> <<>>, page_token |-> "None", error |-> NoError]

\* Both passes of a default-window call found nothing.
C5_Witness ==
    /\ g_pc = "done"
    /\ ~ExplicitWindow
    /\ g_args.service_type = "cloud_run"
    /\ Len(g_calls) = 4
    /\ \A k \in 1..4 : CallEmpty(g_calls[k])
    /\ g_ret.error = NoError

(***************************************************************************)
(* C6, as claimed: a query error yields empty logs and a populated error;  *)
(* later filter attempts are skipped only when the error is unrecoverable; *)
(* an empty result never causes the next filter to be skipped.             *)
(***************************************************************************)
\* Filters that get_gcp_logs would still have tried after call k.
FiltersLeftAfter(k) ==
    \/ g_calls[k].index < NumTemplates
    \/ (g_calls[k].pass = 1 /\ ~ExplicitWindow)

C6_SkipOnlyOnUnrecoverable ==
    \A k \in 1..Len(g_calls) :
        /\ EmptyIsFollowed(k)
        /\ (CallFailed(g_calls[k]) /\ g_pc = "done") =>
              /\ g_ret.logs = <<>>
              /\ g_ret.error # NoError
              /\ (k = Len(g_calls) /\ FiltersLeftAfter(k)) =>
                     g_calls[k].outcome.err = "auth"

(***************************************************************************)
(* C6, amended: a query error of any kind, recoverable or not, ends the    *)
(* call with empty logs and that error, and every later filter attempt is  *)
(* skipped; an empty result never causes the next filter to be skipped.    *)
(***************************************************************************)
C6_AnyQueryErrorEndsTheCall ==
    \A k \in 1..Len(g_calls) :
        /\ EmptyIsFollowed(k)
        /\ CallFailed(g_calls[k]) =>
              /\ k = Len(g_calls)
              /\ g_pc = "done"
              /\ g_ret.logs = <<>>
              /\ g_ret.error = [type |-> "Exception",
                                msg |-> g_calls[k].outcome.err]

\* A transient error of the first of two filters ends the call.
C6_Witness ==
    /\ g_pc = "done"
    /\ g_args.service_type = "cloud_run"
    /\ Len(g_calls) = 1
    /\ CallFailed(g_calls[1])
    /\ g_calls[1].outcome.err = "transient"
    /\ g_ret.error # NoError

(***************************************************************************)
(* C7: get_gcp_logs validates before it queries.  If the service name or   *)
(* the project identifier fails sanitize_identifier, or the service type   *)
(* is not in the table, it returns empty logs and an error and queries     *)
(* nothing; every filter is built from identifiers that passed             *)
(* sanitize_identifier.                                                    *)
(***************************************************************************)
C7_ValidateBeforeQuery ==
    /\ (Started /\ ~InputsValid) =>
          /\ g_pc = "done"
          /\ g_ret.logs = <<>>
          /\ g_ret.error # NoError
          /\ g_calls = <<>>
          /\ g_filters = <<>>
    /\ \A i \in 1..Len(g_filters) :
          /\ ~sanitize_identifier(g_filters[i].clause.value).raised
          /\ g_filters[i].clause.value \in {g_args.service_name, g_env}
    /\ \A k \in 1..Len(g_calls) :
          ~sanitize_identifier(g_calls[k].filter.clause.value).raised

\* A service name that holds a quote is turned down before any query.
C7_Witness ==
    /\ g_pc = "done"
    /\ "QUOTE" \in CharsOf(g_args.service_name)
    /\ g_args.service_type \in ServiceType
    /\ g_calls = <<>>
    /\ g_ret.error = ValueError("Invalid")

(***************************************************************************)
(* C9: when the completion text is not a well-formed structured object,    *)
(* supervisor_agent does not raise; it returns a decision whose next_agent *)
(* is the whole text verbatim, with no repository target (so the text      *)
(* log_explorer still names the log-answer handler).                       *)
(***************************************************************************)
WellFormedObject(text) ==
    text.kind = "object" /\ text.fence \in {"none", "json"}

C9_MalformedTextFallsBack ==
    (sup_pc \in {"done", "raised"} /\ ~WellFormedObject(sup_text)) =>
        /\ sup_pc = "done"
        /\ sup_out.raised = "None"
        /\ sup_out.next_agent = [sup_text EXCEPT !.pad = FALSE]
        /\ sup_out.repo_url = PyNone

(***************************************************************************)
(* C10: after the router node the engine runs the handler the router's     *)
(* decision names (log_explorer, github_issue_manager, solutions_agent or  *)
(* ask_for_repo_url), and the turn ends in that handler.                   *)
(***************************************************************************)
HandlerNode(next_agent) ==
    IF next_agent = "solutions_agent" THEN "solutions" ELSE next_agent

C10_DecisionSelectsHandler ==
    (/\ Len(wf_trace) >= 2
     /\ wf_trace[1] = "supervisor"
     /\ wf_state.next_agent \in AgentNames) =>
        /\ wf_trace[2] = HandlerNode(wf_state.next_agent)
        /\ wf_pc = "END" =>
              wf_trace[Len(wf_trace)] = HandlerNode(wf_state.next_agent)

(***************************************************************************)
(* Vocabulary of the claims about the turns of a thread.                   *)
(***************************************************************************)
IsPrefix(s, t) == Len(s) <= Len(t) /\ SubSeq(t, 1, Len(s)) = s
IsProperPrefix(s, t) == Len(s) < Len(t) /\ SubSeq(t, 1, Len(s)) = s
TurnOver == wf_pc \in {"END", "failed"}
TurnRunning == wf_pc \notin {"idle", "END", "failed"}
Ran(node) == \E i \in DOMAIN wf_trace : wf_trace[i] = node
Called(collaborator) == \E i \in DOMAIN wf_effects : wf_effects[i] = collaborator
\* The router of this turn returned a decision.
Decided == Ran("supervisor") /\ wf_router.raised = "None"
                             /\ wf_router.next_agent # PyNone
\* The channels the turn started from: the checkpoint with the input applied.
TurnStart == ApplyInput(wf_pre, wf_input.input)
\* What the turn has appended to a history.
Appended(h) ==
    SubSeq(wf_checkpoint[h], Len(wf_pre[h]) + 1, Len(wf_checkpoint[h]))

(***************************************************************************)
(* C11: when the router's decision is ask_for_repo_url, the turn makes no  *)
(* log query and no issue-tracker call, and what it ends with is the       *)
(* router node followed by the ask_for_repo_url node, whose prompt is the  *)
(* only handler output.                                                    *)
(***************************************************************************)
C11_AskForRepoUrlOnlyPrompts ==
    (Decided /\ wf_router.next_agent = Str("ask_for_repo_url")) =>
        /\ ~Called("log_query")
        /\ ~Called("issue_tracker")
        /\ wf_pc = "END" =>
              /\ wf_trace = <<"supervisor", "ask_for_repo_url">>
              /\ Appended("orchestrator_history") =
                     <<"Routing to ask_for_repo_url",
                       "Please provide the full GitHub repository URL">>
              /\ Appended("log_reviewer_history") = <<>>

(***************************************************************************)
(* C12: a repository target that is set when a turn starts (by the caller  *)
(* or by an earlier turn) is still the thread's target at every later      *)
(* point of the turn, unless the router of the turn extracted one.         *)
(***************************************************************************)
C12_RepoTargetNeverCleared ==
    (/\ wf_turn >= 1
     /\ TurnStart.git_repo_url # "None"
     /\ wf_router.repo_url = PyNone) =>
        /\ wf_checkpoint.git_repo_url = TurnStart.git_repo_url
        /\ wf_state.git_repo_url = TurnStart.git_repo_url

(***************************************************************************)
(* C13: when the checkpoint a turn starts from holds a service identity    *)
(* and the utterance of the turn names no service, the state the turn      *)
(* works on and every checkpoint it saves hold that same service_name and  *)
(* service_type.                                                           *)
(***************************************************************************)
C13_ServiceIdentityPersists ==
    (/\ wf_turn >= 2
     /\ wf_pre.service_name # "None"
     /\ wf_input.utterance.phrase = "none") =>
        /\ wf_state.service_name = wf_pre.service_name
        /\ wf_state.service_type = wf_pre.service_type
        /\ wf_checkpoint.service_name = wf_pre.service_name
        /\ wf_checkpoint.service_type = wf_pre.service_type

C13_Witness ==
    /\ wf_turn = 2
    /\ wf_pc = "END"
    /\ Ran("log_explorer")
    /\ wf_input.utterance.phrase = "none"
    /\ wf_pre.service_name = "vllm-gemma"
    /\ wf_pre.service_type = "gke"
    /\ wf_checkpoint.service_name = "vllm-gemma"
    /\ wf_checkpoint.next_agent = "github_issue_manager"

(***************************************************************************)
(* C14: an exception a collaborator raises inside a handler never escapes  *)
(* the handler: no turn ends with it.                                      *)
(***************************************************************************)
C14_CollaboratorErrorsAreCaught ==
    ~(wf_pc = "failed" /\ wf_exc = "CompletionError")

(***************************************************************************)
(* C15: a turn that fails leaves the checkpoint of the thread as it was    *)
(* before the turn.                                                        *)
(***************************************************************************)
C15_FailedTurnLeavesCheckpoint ==
    wf_pc = "failed" => wf_checkpoint = wf_pre

(***************************************************************************)
(* C17: orchestrator_history, log_reviewer_history and                     *)
(* github_issue_manager_history only grow: at every point of a turn each   *)
(* has the value it had before the turn as a prefix.                       *)
(***************************************************************************)
C17_HistoriesAppendOnly ==
    \A h \in {"orchestrator_history", "log_reviewer_history",
              "github_issue_manager_history"} :
        IsPrefix(wf_pre[h], wf_checkpoint[h])

(***************************************************************************)
(* C18: from the moment a turn has started, the messages of the thread     *)
(* hold the messages before the turn as a proper prefix.                   *)
(***************************************************************************)
C18_MessagesGrowEveryTurn ==
    wf_turn >= 1 =>
        /\ IsProperPrefix(wf_pre.messages, wf_checkpoint.messages)
        /\ wf_state.messages = wf_checkpoint.messages

C18_Witness ==
    /\ wf_turn = 2
    /\ wf_pc = "END"
    /\ Len(wf_pre.messages) = 2
    /\ Len(wf_checkpoint.messages) = 3
    /\ wf_pre.messages[2] = "No service name specified."

(***************************************************************************)
(* C19: every turn terminates.  The engine starts a turn at the router     *)
(* node, runs no node twice in a turn, and every turn that is running      *)
(* comes to its end: at the end node, or, when a node raised, with that    *)
(* exception.                                                              *)
(***************************************************************************)
Nodes ==
    {"supervisor", "log_explorer", "issue_creation", "github_issue_manager",
     "code_fixer", "solutions", "ask_for_repo_url"}
NoNodeTwice ==
    \A i, j \in DOMAIN wf_trace : i # j => wf_trace[i] # wf_trace[j]
BoundedTurn ==
    /\ NoNodeTwice
    /\ \A i \in DOMAIN wf_trace : wf_trace[i] \in Nodes
    /\ wf_trace # <<>> => wf_trace[1] = "supervisor"
    /\ wf_pc = "failed" <=> (TurnOver /\ wf_exc # "None")

C19_EveryTurnTerminates ==
    /\ []BoundedTurn
    /\ TurnRunning ~> TurnOver

C19_Witness ==
    /\ wf_pc = "END"
    /\ wf_trace = <<"supervisor", "log_explorer", "issue_creation",
                    "github_issue_manager">>
    /\ wf_exc = "None"

(***************************************************************************)
(* C20: supervisor_agent calls the completion collaborator exactly once    *)
(* per invocation: once the completion has answered, and whether the       *)
(* answer parses or not, the number of completion calls is one.            *)
(***************************************************************************)
C20_OneCompletionPerInvocation ==
    /\ sup_pc = "idle" => sup_completions = 0
    /\ sup_pc \in {"completed", "done", "raised"} => sup_completions = 1

C20_Witness ==
    /\ sup_pc = "raised"
    /\ sup_text.kind = "bare"
    /\ JsonLoads(StripFence(Strip(sup_text))) = "error"
    /\ sup_completions = 1

(***************************************************************************)
(* C16: every issue github_issue_manager_agent has gone through, with      *)
(* title the first 256 characters of its description, was skipped with a   *)
(* reason and not created if the tracker lists an item of exactly that     *)
(* title that is open, or closed and labelled wontfix; otherwise it was    *)
(* not skipped and create_issue was called for it exactly once.            *)
(***************************************************************************)
MustSkip(title) ==
    \E k \in DOMAIN gh_existing :
        /\ gh_existing[k].title = title
        /\ \/ gh_existing[k].state = "open"
           \/ gh_existing[k].state = "closed"
                /\ "wontfix" \in gh_existing[k].labels

C16_SkipOrCreateOnce ==
    \A k \in DOMAIN gh_log :
        LET title == Take(gh_issues[k], TitleLength)
        IN  /\ gh_log[k].title = title
            /\ IF MustSkip(title)
               THEN /\ gh_log[k].skipped
                    /\ gh_log[k].reason \in {"open", "wontfix"}
                    /\ gh_log[k].create_calls = 0
               ELSE /\ ~gh_log[k].skipped
                    /\ gh_log[k].create_calls = 1

(***************************************************************************)
(* C29: build_filter_variations returns exactly one filter per template of *)
(* the category, in table order; each filter holds the resource type of    *)
(* the category, the text of its template with the service name or the     *)
(* project put in the placeholder's place, the severity clause and the     *)
(* time clause the list was built with (the explicit window of the call,   *)
(* or else 24 hours in the first pass and 48 hours in the second).         *)
(***************************************************************************)
FiltersBuilt == g_pass >= 1
Substituted(template) ==
    IF template.placeholder = "service_name" THEN g_args.service_name
    ELSE g_env
C29_OneFilterPerTemplate ==
    FiltersBuilt =>
        /\ Len(g_filters) = NumTemplates
        /\ \A i \in 1..Len(g_filters) :
            /\ g_filters[i].resource_type =
                   SERVICE_CONFIG(g_args.service_type).resource_type
            /\ g_filters[i].clause.lhs = Table[i].lhs
            /\ g_filters[i].clause.pre = Table[i].pre
            /\ g_filters[i].clause.post = Table[i].post
            /\ g_filters[i].clause.value = Substituted(Table[i])
            /\ g_filters[i].clause.value \in ServiceNames \cup ProjectIds
            /\ g_filters[i].severity = "DEFAULT"
            /\ g_filters[i].time_filter = g_filters[1].time_filter
            /\ ExplicitWindow =>
                   g_filters[i].time_filter =
                       TimeFilter(g_args.start_time, g_args.end_time)
            /\ ~ExplicitWindow =>
                   WindowHours(g_filters[i]) =
                       IF g_pass = 1 THEN DefaultLookbackHours
                       ELSE RetryLookbackHours

\* The three filters of cloud_build, the third on the project, built for
\* the 48-hour pass.
C29_Witness ==
    /\ FiltersBuilt
    /\ g_pass = 2
    /\ g_args.service_type = "cloud_build"
    /\ Len(g_filters) = 3
    /\ g_filters[1].clause.lhs = "resource.labels.build_id"
    /\ g_filters[2].clause.lhs = "resource.labels.build_trigger_id"
    /\ g_filters[3].clause.lhs = "logName"
    /\ g_filters[3].clause.value = g_env
    /\ g_filters[3].clause.value # g_args.service_name
    /\ WindowHours(g_filters[3]) = RetryLookbackHours

(***************************************************************************)
(* C25: in every handler that fetches logs, what the handler leaves in the *)
(* state after a fetch that returned an error differs from what it leaves  *)
(* after a fetch that returned no entries.                                 *)
(***************************************************************************)
FetchError(out) == out.fetch.result = "error" /\ ~out.raised
FetchEmpty(out) == out.fetch.result = "empty" /\ ~out.raised
C25_ErrorDiffersFromNothingFound ==
    /\ wf_pc = "log_explorer" =>
         \A e, n \in log_explorer_agent(wf_state.service_name,
                                        wf_state.service_type,
                                        TimeNone, TimeNone) :
            FetchError(e) /\ FetchEmpty(n) =>
                log_explorer_node(wf_state, e.value)
                    # log_explorer_node(wf_state, n.value)
    /\ wf_pc = "issue_creation" =>
         \A e, n \in issue_creation_agent(wf_state.service_name,
                                          wf_state.git_repo_url) :
            FetchError(e) /\ FetchEmpty(n) =>
                issue_creation_node(wf_state, e.value)
                    # issue_creation_node(wf_state, n.value)

(***************************************************************************)
(* C26: a turn that reaches the end node has appended to messages, after   *)
(* the user's message, at least one message produced in the turn.          *)
(***************************************************************************)
C26_TurnAppendsReplyToMessages ==
    wf_pc = "END" =>
        IsProperPrefix(TurnStart.messages, wf_checkpoint.messages)

(***************************************************************************)
(* C27: in a turn whose utterance gives a time window (the last hour) and  *)
(* whose router decision is log_explorer, log_explorer's call of           *)
(* get_gcp_logs carries a start_time and an end_time one hour apart, so    *)
(* that the 48-hour retry is not armed; and log_explorer does not answer   *)
(* "no logs found" when the call returned entries.                         *)
(***************************************************************************)
WindowGiven == wf_input.utterance.window = "last hour"
RoutedToLogExplorer == Decided /\ PyStr(wf_router.next_agent) = "log_explorer"
CarriesWindow(call, hours) ==
    /\ call.start_time.kind = "iso"
    /\ call.end_time.kind = "iso"
    /\ call.end_time.t - call.start_time.t = hours
    /\ ~BuildTimeFilter(call.start_time, call.end_time, 0).auto_retry_48h
C27_ExplicitWindowReachesResolver ==
    /\ \A i \in DOMAIN wf_fetches :
         (WindowGiven /\ RoutedToLogExplorer
            /\ wf_fetches[i].node = "log_explorer") =>
             CarriesWindow(wf_fetches[i].call, 1)
    /\ wf_pc = "log_explorer" =>
         \A out \in log_explorer_agent(wf_state.service_name,
                                       wf_state.service_type,
                                       TimeNone, TimeNone) :
            (out.fetch.result = "entries" /\ ~out.raised) =>
                out.value # "no logs found"

(***************************************************************************)
(* Invocations of the compiled graph that run at the same time, each with  *)
(* a thread_id (tests/test_conversation.py 40-55).  An invocation reads    *)
(* the checkpoint of its thread when it starts, works on its own copy of   *)
(* the channels and writes the copy to the checkpointer after the input    *)
(* and after every node; main.py has no lock around invoke, and the        *)
(* checkpointer keeps for a thread what was written to it last.            *)
(***************************************************************************)
\* The completion the router is answered with.
ThreadCompletion == Text(FALSE, "none", "object", "log_explorer", "None", "None")

\* invoke({"messages": [message]}, config) is called on a thread.
ThreadInvoke ==
    /\ Len(th_inv) < MaxInvocations
    /\ \E thread_id \in ThreadIds, utterance \in Utterances :
        LET input == MessageOnly(UserQuery(utterance))
            state == ApplyInput(GetCheckpoint(th_store, thread_id), input)
        IN  /\ th_inv' = Append(th_inv,
                  Invocation("supervisor", thread_id, utterance, state,
                             ApplyInput(NoChannels, input)))
            /\ th_store' = PutCheckpoint(th_store, thread_id, state)
    /\ UNCHANGED <<coreVars, exVars, rlVars, a2aVars>>

\* The entry node of an invocation.
ThreadSupervisor(i) ==
    /\ th_inv[i].pc = "supervisor"
    /\ LET inv == th_inv[i]
           out == supervisor_node(inv.state, inv.utterance, ThreadCompletion)
           alone == supervisor_node(inv.alone, inv.utterance,
                                    ThreadCompletion)
       IN  /\ th_inv' = [th_inv EXCEPT ![i] =
                 Invocation(NextNode("supervisor", out.state), inv.thread_id,
                            inv.utterance, out.state, alone.state)]
           /\ th_store' = PutCheckpoint(th_store, inv.thread_id, out.state)
    /\ UNCHANGED <<coreVars, exVars, rlVars, a2aVars>>

\* The log_explorer node of an invocation; no edge leads on from it when
\* the thread has no repository.
ThreadLogExplorer(i) ==
    /\ th_inv[i].pc = "log_explorer"
    /\ LET inv == th_inv[i]
       IN  \E out \in log_explorer_agent(inv.state.service_name,
                                         inv.state.service_type,
                                         TimeNone, TimeNone) :
             IF out.raised
             THEN /\ th_inv' = [th_inv EXCEPT ![i].pc = "failed"]
                  /\ th_store' = th_store
             ELSE LET state == log_explorer_node(inv.state, out.value)
                  IN  /\ th_inv' = [th_inv EXCEPT ![i] =
                            Invocation(NextNode("log_explorer", state),
                                       inv.thread_id, inv.utterance, state,
                                       log_explorer_node(inv.alone,
                                                         out.value))]
                      /\ th_store' =
                            PutCheckpoint(th_store, inv.thread_id, state)
    /\ UNCHANGED <<coreVars, exVars, rlVars, a2aVars>>

InitThreads ==
    SanitizeIdle /\ FetchIdle /\ SupervisorIdle /\ WorkflowIdle /\ FilingIdle
        /\ EdgeIdle
NextThreads ==
    \/ ThreadInvoke
    \/ \E i \in DOMAIN th_inv : ThreadSupervisor(i)
    \/ \E i \in DOMAIN th_inv : ThreadLogExplorer(i)
SpecThreads == InitThreads /\ [][NextThreads]_vars

(***************************************************************************)
(* Vocabulary of the claims about the rate limiter.                        *)
(***************************************************************************)
\* How many requests of caller were accepted at a time t with
\* from <= t < from + window_seconds.
RECURSIVE AcceptedFrom(_, _)
AcceptedFrom(accepted, from) ==
    IF accepted = <<>> THEN 0
    ELSE (IF from <= Head(accepted).t
             /\ Head(accepted).t < from + window_seconds
          THEN Head(accepted).n ELSE 0)
         + AcceptedFrom(Tail(accepted), from)

\* How many accepted requests of caller are within the window of a request
\* that arrives at now.
AcceptedWithin(caller, now) ==
    AcceptedFrom(rl_accepted[caller], now - window_seconds + 1)

\* C23: for every caller, no window of window_seconds holds more than
\* max_requests accepted requests (a fullest window starts at an accepted
\* timestamp), and the requests of a caller that arrive while max_requests
\* accepted ones of that caller are within the window are rejected with 429
\* and accepted timestamps stay as they are.
C23_WindowNeverExceeded ==
    \A caller \in Callers :
        \A k \in DOMAIN rl_accepted[caller] :
            AcceptedFrom(rl_accepted[caller], rl_accepted[caller][k].t)
                <= max_requests
C23_FullWindowRejects ==
    rl_calls' # rl_calls =>
        LET caller == rl_last'.caller
        IN  AcceptedFrom(rl_accepted[caller], rl_now' - window_seconds + 1)
                >= max_requests
            => /\ rl_last'.status = 429
               /\ rl_accepted' = rl_accepted
C23_SlidingWindowLimit ==
    [](C23_WindowNeverExceeded) /\ [][C23_FullWindowRejects]_vars
\* max_requests accepted requests are within the window, some of them older
\* than the request before, and the last request was rejected.
C23_Witness ==
    /\ rl_last.status = 429
    /\ AcceptedWithin(rl_last.caller, rl_now) = max_requests
    /\ Len(rl_accepted[rl_last.caller]) > 1

(***************************************************************************)
(* Vocabulary of the claims about /a2a/execute.                            *)
(***************************************************************************)
\* The graph runs for the request, or has run.
EngineInvoked == a2a_pc = "invoked" \/ wf_pc # "idle"

\* The three checks the request passed, in the order they were passed in.
ChecksInOrder == <<"token_verified", "caller_allowed", "rate_limit_passed">>

\* C24: the graph is invoked for a request only when its bearer token was
\* verified, then its caller found in the allow-list, then the rate limit
\* passed; a request that is rejected leaves the graph where it was, no node
\* run for it and no thread written; with an empty allow-list no request
\* gets past the token check.
C24_InvokedAfterChecks ==
    /\ wf_pc # "idle" => a2a_pc = "invoked"
    /\ EngineInvoked =>
        /\ a2a_request.authorization = "Bearer"
        /\ a2a_request.token.valid
        /\ a2a_request.token.email \in a2a_allowed
        /\ a2a_caller = a2a_request.token.email
        /\ a2a_log = ChecksInOrder
        /\ rl_last = Checked(a2a_caller, rl_now, 200)
    /\ a2a_allowed = {} =>
        /\ a2a_pc \in {"idle", "received", "rejected"}
        /\ a2a_store = <<>>
C24_RejectedRunsNothing ==
    a2a_pc' = "rejected" =>
        /\ wf_pc' = "idle"
        /\ wf_trace' = <<>>
        /\ wf_checkpoint' = NoChannels
        /\ a2a_store' = a2a_store
        /\ a2a_response'.status \in {400, 401, 403, 404, 429}
C24_ChecksBeforeEngine ==
    [](C24_InvokedAfterChecks) /\ [][C24_RejectedRunsNothing]_vars
\* A request ran the graph to its end, and the request after it was rejected
\* by the rate limiter.
C24_Witness ==
    /\ a2a_pc = "rejected"
    /\ a2a_response = HTTPException(429)
    /\ Len(a2a_store) = 1
    /\ a2a_log = <<"token_verified", "caller_allowed">>

\* C28: the result of a request that names no thread holds the id of the
\* thread made for it, and the graph of a request that names a thread starts
\* from what the checkpointer holds for that thread.
C28_ThreadIdReturnedAndResumed ==
    /\ (/\ a2a_pc = "responded"
        /\ a2a_response.success
        /\ a2a_request.input.thread_id = 0)
            => "thread_id" \in DOMAIN a2a_response.result
    /\ (/\ a2a_pc = "invoked"
        /\ a2a_request.input.thread_id \in 1..Len(a2a_store))
            => wf_pre = a2a_store[a2a_request.input.thread_id]

(***************************************************************************)
(* Vocabulary of the claims about the service named in the utterance.      *)
(***************************************************************************)
\* The categories in the order their patterns are tried in, by the words
\* that introduce a service of the category.
CategoryOrder ==
    <<[phrase |-> "cloud run service", type |-> "cloud_run"],
      [phrase |-> "cloud build", type |-> "cloud_build"],
      [phrase |-> "cloud function", type |-> "cloud_functions"],
      [phrase |-> "gce instance", type |-> "gce"],
      [phrase |-> "gke cluster", type |-> "gke"],
      [phrase |-> "app engine", type |-> "app_engine"]>>

\* The pattern of a category.
PatternOf(category) ==
    CHOOSE k \in DOMAIN service_patterns :
        service_patterns[k].phrase = category.phrase

\* What the pattern of the k-th category finds in the query.
Found(k, user_query) ==
    re_search(service_patterns[PatternOf(CategoryOrder[k])], user_query)

\* supervisor_node ran on a state without a service.
ExtractedFromUtterance == ex_pc = "done" /\ ex_in.state_name = <<>>

\* C30: when the state has no service, the identity is that of the first
\* category, in the fixed order, whose pattern matches the utterance: the
\* name it matched and its type; the name holds allowed characters only;
\* when no pattern matches there is no name; "cloud run service my@service"
\* yields none.
C30_FirstPatternFixesIdentity ==
    ExtractedFromUtterance =>
        LET matching == {k \in DOMAIN CategoryOrder :
                            Found(k, ex_in.user_query).matched}
        IN  /\ matching # {} =>
                LET first == CHOOSE k \in matching :
                                 \A j \in matching : k <= j
                IN  /\ ex_out.name = Found(first, ex_in.user_query).name
                    /\ ex_out.type = CategoryOrder[first].type
                    /\ ex_out.name # <<>>
                    /\ CharsOf(ex_out.name) \subseteq AllowedChars
            /\ matching = {} => ex_out.name = <<>>
            /\ (\A k \in DOMAIN ex_in.user_query :
                    /\ ~ex_in.user_query[k].logs_for
                    /\ ex_in.user_query[k].text = InvalidName)
                  => ex_out.name = <<>>
\* The utterance names a gke cluster and then a cloud run service: the
\* identity is the cloud run service.
C30_Witness ==
    /\ ExtractedFromUtterance
    /\ Len(ex_in.user_query) = 2
    /\ ex_in.user_query[1].phrase = "gke cluster"
    /\ MatchName(ex_in.user_query[1].text).matched
    /\ ex_in.user_query[2].phrase = "cloud run service"
    /\ ex_out = Identity(<<Run("-", 1)>>, "cloud_run")

(***************************************************************************)
(* Vocabulary of the claims about invocations that run at the same time.   *)
(***************************************************************************)
\* How many of the messages are queries of users.
RECURSIVE UserMessages(_)
UserMessages(messages) ==
    IF messages = <<>> THEN 0
    ELSE (IF \E u \in Utterances : Head(messages) = UserQuery(u)
          THEN 1 ELSE 0) + UserMessages(Tail(messages))

\* The invocations made, and those of a thread.
Invocations == DOMAIN th_inv
On(thread_id) == {i \in Invocations : th_inv[i].thread_id = thread_id}

\* C21: when two invocations of one thread are over, the messages of the
\* thread's checkpoint hold the queries of both.
C21_SameThreadKeepsBothTurns ==
    \A i \in Invocations, j \in Invocations :
        (/\ i # j
         /\ th_inv[i].pc = "END"
         /\ th_inv[j].pc = "END"
         /\ th_inv[i].thread_id = th_inv[j].thread_id)
            => UserMessages(th_store[th_inv[i].thread_id].messages) >= 2

\* C22: an invocation that is the only one of its thread finds the thread
\* as it would alone: at every point the checkpoint of the thread is what
\* the invocation would have written had no other invocation run; a thread
\* without invocations holds nothing; and a step writes to the thread of the
\* invocation that takes it only.
C22_AloneOnThread ==
    /\ \A i \in Invocations :
          On(th_inv[i].thread_id) = {i}
              => /\ th_inv[i].state = th_inv[i].alone
                 /\ th_store[th_inv[i].thread_id] = th_inv[i].alone
    /\ \A t \in ThreadIds : On(t) = {} => t \notin DOMAIN th_store
C22_WritesOwnThread ==
    \A t \in ThreadIds :
        GetCheckpoint(th_store', t) # GetCheckpoint(th_store, t) =>
            \E i \in DOMAIN th_inv' :
                /\ th_inv'[i].thread_id = t
                /\ i \in DOMAIN th_inv => th_inv'[i] # th_inv[i]
C22_DistinctThreadsIsolated ==
    [](C22_AloneOnThread) /\ [][C22_WritesOwnThread]_vars
\* Two invocations of different threads are over, each with the answer of
\* its log_explorer node in its thread.
C22_Witness ==
    /\ Len(th_inv) = 2
    /\ th_inv[1].pc = "END"
    /\ th_inv[2].pc = "END"
    /\ th_inv[1].thread_id # th_inv[2].thread_id
    /\ th_store[th_inv[1].thread_id].log_reviewer_history # <<>>
    /\ th_store[th_inv[2].thread_id].log_reviewer_history # <<>>

\* All the requests of caller that were accepted.
Accepted(caller) == Count(rl_accepted[caller])

\* C31: a check leaves the caller no timestamp that is window_seconds old or
\* older; requests that arrive while fewer than max_requests accepted ones of
\* the caller are within the window are not all rejected, and the request
\* that arrives when every accepted one is window_seconds old or older is
\* accepted.
C31_Evicted ==
    rl_last.caller \in Callers =>
        \A k \in DOMAIN rl_requests[rl_last.caller] :
            rl_now - rl_requests[rl_last.caller][k].t < window_seconds
C31_RoomAdmits ==
    rl_calls' # rl_calls =>
        LET caller == rl_last'.caller
            within == AcceptedFrom(rl_accepted[caller],
                                   rl_now' - window_seconds + 1)
        IN  /\ within < max_requests =>
                Count(rl_accepted'[caller]) > Count(rl_accepted[caller])
            /\ within = 0 => rl_last'.status = 200
C31_EvictionReadmits ==
    [](C31_Evicted) /\ [][C31_RoomAdmits]_vars
\* The window of a caller was full, window_seconds went by, and the request
\* of the caller was accepted.
C31_Witness ==
    /\ rl_last.status = 200
    /\ Len(rl_accepted[rl_last.caller]) = 2
    /\ rl_accepted[rl_last.caller][1].n = max_requests
    /\ rl_accepted[rl_last.caller][2].t
           = rl_accepted[rl_last.caller][1].t + window_seconds
    /\ AcceptedWithin(rl_last.caller, rl_now) = 1

\* C32: the timestamps a check records for its caller are as many as the
\* requests it accepted, a rejected request none; the timestamps of every
\* other caller, recorded and accepted, stay as they are.
C32_RejectedRecordsNothing ==
    rl_calls' # rl_calls =>
        LET caller == rl_last'.caller
            kept == SelectSeq(rl_requests[caller],
                        LAMBDA req : rl_now' - req.t < window_seconds)
        IN  /\ Count(rl_requests'[caller]) =
                   Count(kept) + Count(rl_accepted'[caller])
                       - Count(rl_accepted[caller])
            /\ rl_last'.status = 429 =>
                   Count(rl_requests'[caller]) = max_requests
            /\ \A other \in Callers \ {caller} :
                   /\ rl_requests'[other] = rl_requests[other]
                   /\ rl_accepted'[other] = rl_accepted[other]
C32_RejectionAndOtherCallers == [][C32_RejectedRecordsNothing]_vars
\* A request of a caller was rejected while another caller has timestamps
\* recorded, fewer than max_requests.
C32_Witness ==
    /\ rl_last.status = 429
    /\ \E other \in Callers \ {rl_last.caller} :
           /\ rl_requests[other] # <<>>
           /\ Count(rl_requests[other]) < max_requests

BatchDone == gh_pc = "done"
Status == StatusMessage(gh_log, gh_skipped_reasons)
C34_EveryIssueAccountedOnce ==
    BatchDone =>
        /\ Status.created_issues + Status.skipped_issues
               + Status.error_messages = Len(gh_issues)
        /\ Status.created_issues =
               Cardinality({k \in DOMAIN gh_log : gh_log[k].created})
        /\ Status.skipped_issues = Len(Status.skipped_reasons)

(***************************************************************************)
(* C35: within one github_issue_manager_agent call no two items are        *)
(* created with the same title: an issue whose title is that of an item    *)
(* created earlier in the same batch is skipped, and create_issue is not   *)
(* called for it.                                                          *)
(***************************************************************************)
CreatedEarlier(k) ==
    \E j \in 1..(k - 1) :
        gh_log[j].created /\ gh_log[j].title = gh_log[k].title
C35_NoTitleCreatedTwice ==
    \A k \in DOMAIN gh_log :
        CreatedEarlier(k) =>
            /\ gh_log[k].skipped
            /\ gh_log[k].create_calls = 0

(***************************************************************************)
(* C36: if listing the tracker's existing items failed,                    *)
(* github_issue_manager_agent creates no item: create_issue is called for  *)
(* no issue of the batch.                                                  *)
(***************************************************************************)
ListingFailed == gh_listing = "failed"
C36_ListingFailureFilesNothing ==
    ListingFailed =>
        \A k \in DOMAIN gh_log : gh_log[k].create_calls = 0

(***************************************************************************)
(* C37: every log fetch a handler makes during a turn queries the          *)
(* thread's current service identity and category: the service_name and    *)
(* the service_type get_gcp_logs is called with are those held in the      *)
(* thread state.                                                           *)
(***************************************************************************)
C37_FetchesQueryThreadService ==
    \A i \in DOMAIN wf_fetches :
        /\ wf_fetches[i].call.service_name = wf_state.service_name
        /\ wf_fetches[i].call.service_type = wf_state.service_type

(***************************************************************************)
(* C38: if the thread holds no service identity when a turn starts and     *)
(* none can be extracted from the utterance, supervisor_node reports the   *)
(* missing service name and sets next_agent to END, and the turn ends      *)
(* there: supervisor is the only node that runs in the turn, and no        *)
(* completion call and no log query is made in it.                         *)
(***************************************************************************)
TurnStartState == ApplyInput(wf_pre, wf_input.input)
SupervisorHasRun == wf_pc # "idle" /\ wf_trace # <<>>
MissingService ==
    /\ SupervisorHasRun
    /\ TurnStartState.service_name = "None"
    /\ ExtractServiceName(wf_input.utterance) = "None"
C38_MissingServiceEndsTurn ==
    MissingService =>
        /\ wf_state.next_agent = "END"
        /\ wf_state.messages[Len(wf_state.messages)]
               = "No service name specified."
        /\ wf_trace = <<"supervisor">>
        /\ wf_effects = <<>>

(***************************************************************************)
(* C39: after log_explorer has run in a turn, issue_creation and then      *)
(* github_issue_manager run in the same turn if and only if the thread     *)
(* state holds a repo target at that point; with no repo target the turn   *)
(* ends after log_explorer and no issue-tracker call is made in it.        *)
(***************************************************************************)
LogExplorerDone ==
    /\ Len(wf_trace) >= 2
    /\ wf_trace[2] = "log_explorer"
    /\ ~(wf_pc = "failed" /\ Len(wf_trace) = 2)
HasRepoTarget == wf_state.git_repo_url # "None"
FilingFollows ==
    \/ wf_trace = <<"supervisor", "log_explorer">>
         /\ wf_pc = "issue_creation"
    \/ wf_trace = <<"supervisor", "log_explorer", "issue_creation">>
         /\ wf_pc \in {"github_issue_manager", "failed"}
    \/ wf_trace = <<"supervisor", "log_explorer", "issue_creation",
                    "github_issue_manager">>
         /\ wf_pc = "END"
TurnEndsAfterLogExplorer ==
    /\ wf_trace = <<"supervisor", "log_explorer">>
    /\ wf_pc = "END"
    /\ ~Called("issue_tracker")
C39_FilingIffRepoTarget ==
    LogExplorerDone =>
        IF HasRepoTarget THEN FilingFollows ELSE TurnEndsAfterLogExplorer
C39_Witness ==
    /\ LogExplorerDone
    /\ HasRepoTarget
    /\ wf_pc = "END"
    /\ Len(wf_trace) = 4
    /\ Called("issue_tracker")

(***************************************************************************)
(* C40: a turn adds each of its entries exactly once to                    *)
(* orchestrator_history: when the turn has ended, the history is the       *)
(* history of before the turn followed by the route entry of the turn, if  *)
(* the router was asked, and the result of log_explorer, so no earlier     *)
(* entry is duplicated and the history grows by at most one entry per      *)
(* node that ran.                                                          *)
(***************************************************************************)
TurnEnded == wf_pc = "END" /\ LogExplorerDone
RouteEntries ==
    IF wf_router = NoDecision THEN <<>>
    ELSE <<"Routing to " \o PyStr(wf_router.next_agent)>>
HandlerEntries ==
    <<wf_state.log_reviewer_history[Len(wf_state.log_reviewer_history)]>>
C40_HistoryGrowsByTurnEntries ==
    TurnEnded =>
        /\ wf_state.orchestrator_history =
               TurnStartState.orchestrator_history
                   \o RouteEntries \o HandlerEntries
        /\ Len(wf_state.orchestrator_history)
               <= Len(TurnStartState.orchestrator_history) + Len(wf_trace)

=============================================================================
